---- MODULE Spec2Model ----
(***************************************************************************)
(* paxcord: the outputter task (src/src/outputter.rs) and the supervisor   *)
(* loop that drives it (src/src/lua/executor.rs).                          *)
(*                                                                         *)
(* A string is a sequence of atoms.  An atom is a TLA+ string holding no   *)
(* space, or the single space " ".  The atom "X" stands for one word of    *)
(* MESSAGE_CHUNK_SIZE + 1 bytes; every other atom has the byte length of   *)
(* its text.  Nothing in the program splits a string except at spaces, so  *)
(* the atoms are never cut.                                                *)
(***************************************************************************)
EXTENDS Integers, Sequences, FiniteSets, TLC

\* ------------------------------------------------------------------ bounds
\* the configured message_update_interval_ms, in clock units
last_update_duration == 2
\* the clock stops here under a client of the handle
MaxTime == 4
\* the clock stops here in a run of execute_lua_thread
MaxRunTime == 2
MaxLagTime == 6
\* commands a client of the handle sends before it joins
MaxCommands == 3
\* events one script emits
MaxEvents == 2
\* clicks on cancel buttons
MaxClicks == 1
\* events one script emits in a run followed for its renders only
MaxRenderEvents == 3
\* atoms of a text given to chunk_message
MaxLen == 5
\* chunk sizes tried besides MESSAGE_CHUNK_SIZE: 0 .. MaxLimit
MaxLimit == 3

\* -------------------------------------------------------------- constants
MESSAGE_CHUNK_SIZE == 1500

\* ---------------------------------------------------------------- strings
AtomLen(a) == IF a = "X" THEN MESSAGE_CHUNK_SIZE + 1 ELSE Len(a)

RECURSIVE ByteLen(_)
ByteLen(s) == IF s = <<>> THEN 0 ELSE AtomLen(Head(s)) + ByteLen(Tail(s))

\* message.split(' '): the words between single spaces, empty words kept
RECURSIVE split_from(_, _, _, _)
split_from(s, i, cur, acc) ==
    IF i > Len(s) THEN Append(acc, cur)
    ELSE IF s[i] = " " THEN split_from(s, i + 1, <<>>, Append(acc, cur))
    ELSE split_from(s, i + 1, Append(cur, s[i]), acc)

split(s) == split_from(s, 1, <<>>, <<>>)

\* a rollover test that fires as soon as the limit is reached
ChunkIsFullAtLimit(last, chunk_size) == ByteLen(last) >= chunk_size

\* a rollover test that is late by one byte
ChunkIsFullLate(last, chunk_size) == ByteLen(last) > chunk_size + 1

\* the rollover test of chunk_message: is the current chunk already oversized
ChunkIsFull(last, chunk_size) == ByteLen(last) > chunk_size

\* a rollover that opens the new chunk empty and loses the word
push_word_empty(chs, word, chunk_size) ==
    LET last == chs[Len(chs)] IN
    IF ByteLen(last) > chunk_size
    THEN Append(chs, <<>>)
    ELSE [chs EXCEPT ![Len(chs)] =
              (IF last # <<>> THEN Append(last, " ") ELSE last) \o word]

\* one iteration of chunk_message's loop
push_word(chs, word, chunk_size) ==
    LET last == chs[Len(chs)] IN
    IF ChunkIsFull(last, chunk_size)
    THEN Append(chs, word)
    ELSE [chs EXCEPT ![Len(chs)] =
              (IF last # <<>> THEN Append(last, " ") ELSE last) \o word]

RECURSIVE chunk_fold(_, _, _, _)
chunk_fold(words, i, chs, chunk_size) ==
    IF i > Len(words) THEN chs
    ELSE chunk_fold(words, i + 1, push_word(chs, words[i], chunk_size), chunk_size)

chunk_message(message, chunk_size) ==
    chunk_fold(split(message), 1, << <<>> >>, chunk_size)

\* format!("~~{}~~", msg.content)
cut_content(content) == <<"~~">> \o content \o <<"~~">>

CANCELLED_MESSAGE == <<"The", " ", "generation", " ", "was", " ", "cancelled.">>

\* ------------------------------------------------------------------ state
VARIABLES
    \* Outputter
    messages,             \* Vec<Message>: the task's copies of its posted messages
    chunks,               \* Vec<String>
    pending_attachments,  \* Vec<CreateAttachment>
    in_terminal_state,
    last_update,          \* Instant of the last gated sync
    sync_interval,        \* deadline of the interval's next tick
    \* the task's position
    pc,                   \* where the outputter task is
    idx,                  \* index of the loop it is in
    draining,             \* what messages.drain(..) has still to yield
    caller,               \* who called sync_messages_with_chunks
    error_message,        \* on_error's argument
    task_result,          \* JoinHandle: "running", "ok", "err", "panic"
    \* the command channel
    tx,                   \* commands sent and not yet received
    tx_open,              \* the sender is not dropped
    \* the chat surface
    remote,               \* the channel's messages, in creation order
    next_id,
    now,                  \* the clock
    \* history
    transport_failed,     \* a transport call has failed
    ncalls,               \* transport calls issued by the outputter task
    prev_gated_end,       \* when the last sync called by sync_if_pending returned; -1 if none
    pending_since,        \* when the oldest Update not yet followed by a sync was handled; -1 if none
    finish_syncs,         \* per sync called by finish: was the rate gate open
    handled,              \* commands the task has received, in order
    terminals,            \* completed terminal transitions and what they left
    ncommands             \* commands sent through the handle

ANCHOR_ID == 1

\* the supervisor (execute_lua_thread) and the script it runs
VARIABLES
    sup_pc,               \* where execute_lua_thread is
    output,               \* Output.output
    print_log,            \* Output.print_log
    errored,
    thread_result,        \* Option<String>: <<>> is None, <<s>> is Some(s)
    thread,               \* the script: "running", "returned", "exhausted"
    output_rx,            \* the three channels the script writes
    print_rx,
    attachment_rx,
    cancel_rx,            \* this session's receiver of the bus: TRUE if Some
    cancel_bus,           \* cancel events published and not yet received
    nevents,              \* events the script has emitted
    nclicks,              \* clicks on cancel buttons
    received,             \* the cancel events this supervisor has received
    outputs_seen,         \* the output values this supervisor has received
    last_click,           \* the last click: who clicked, and what the button names
    sent_updates,         \* the Update messages sent through the handle
    sent_terminal,        \* the terminal commands sent through the handle
    result                \* what execute_lua_thread returned: "none", "ok", "err"

\* the map of output channels kept in a shared Lua runtime
\* (src/src/lua/extensions/globals.rs) and the invocations that use it
VARIABLES
    channels_map,         \* OutputChannelsMap: thread key -> the channels of one invocation
    inv_pc,               \* per invocation: where handle_reply is
    thread_key,           \* per invocation: thread.to_pointer() as usize
    heap,                 \* the addresses of the Lua threads not yet collected
    delivered,            \* the events sent: who emitted, what kind, whose channels got it
    nemitted              \* events emitted through the map

route_vars == <<channels_map, inv_pc, thread_key, heap, delivered, nemitted>>

\* registered Lua commands on the global Lua state (src/src/commands/lua_command.rs)
VARIABLES
    global_lua,           \* the tokio Mutex: 0 if free, else the run that holds the guard
    run_pc,               \* per run of Handler::run: where it is
    output_channels,      \* the "_output_channels" userdata: whose senders it holds
    command_events        \* the events sent: which run's script, whose senders took it

command_vars == <<global_lua, run_pc, output_channels, command_events>>

\* the currency converter (src/src/commands/execute/extensions/currency.rs)
VARIABLES
    cache,                \* HashMap<String, RateCache>
    conv_pc,              \* per call of get_conversion_rate: where it is
    conv_req,             \* per call: its arguments
    conv_result,          \* per call: what it returned
    fetches,              \* the calls of backend.fetch_rates: base and time
    system_time,          \* SystemTime::now()
    nadvances

currency_vars == <<cache, conv_pc, conv_req, conv_result, fetches, system_time,
                   nadvances>>

\* execute_code and its markdown block (src/src/commands/execute.rs)
VARIABLES
    code_arg,             \* the code given to execute_code
    block,                \* parse_markdown_lua_block(code): <<>> is None, <<s>> is Some(s)
    code                  \* the code execute_code goes on with

block_vars == <<code_arg, block, code>>

ext_vars == <<route_vars, command_vars, currency_vars, block_vars>>

sup_vars == <<sup_pc, output, print_log, errored, thread_result, thread,
              output_rx, print_rx, attachment_rx, cancel_rx, cancel_bus,
              nevents, nclicks, received, outputs_seen, last_click, result>>

script_vars == <<thread, output_rx, print_rx, attachment_rx, nevents>>
bus_vars == <<cancel_rx, cancel_bus, nclicks, received, last_click>>

outputter_vars == <<messages, chunks, pending_attachments, in_terminal_state,
                    last_update, sync_interval>>
task_vars == <<pc, idx, draining, caller, error_message, task_result>>
chan_vars == <<tx, tx_open, ncommands, sent_updates, sent_terminal>>
surface_vars == <<remote, next_id, transport_failed, ncalls>>
hist_vars == <<prev_gated_end, pending_since, finish_syncs, handled, terminals>>

vars == <<messages, chunks, pending_attachments, in_terminal_state, last_update,
          sync_interval, pc, idx, draining, caller, error_message, task_result,
          tx, tx_open, ncommands, remote, next_id, transport_failed, ncalls,
          prev_gated_end, pending_since, finish_syncs, handled, terminals, now,
          sent_updates, sent_terminal, sup_vars, ext_vars>>

core_vars == <<outputter_vars, task_vars, chan_vars, surface_vars, hist_vars, now,
               sup_vars>>

\* ----------------------------------------------- the output channels map
\* reply invocations followed on one runtime
MaxInvocations == 2
\* addresses the runtime's allocator hands to threads
MaxAddresses == 2
\* events emitted through the map
MaxEmits == 2

Invocations == 1..MaxInvocations
Addresses == 1..MaxAddresses

DEFAULT_CHANNELS_KEY == 0

\* register: the channels given at construction are the default entry
\* channels_map.insert(DEFAULT_CHANNELS_KEY, OutputChannels::new(..))
NoInvocation ==
    /\ channels_map = [k \in {DEFAULT_CHANNELS_KEY} |-> <<"default">>]
    /\ inv_pc = [i \in Invocations |-> "none"]
    /\ thread_key = [i \in Invocations |-> 0]
    /\ heap = {}
    /\ delivered = {}
    /\ nemitted = 0

\* ------------------------------------------------- registered Lua commands
\* runs of Handler::run followed
MaxRuns == 3

Runs == 1..MaxRuns

NoCommand ==
    /\ global_lua = 0
    /\ run_pc = [r \in Runs |-> "none"]
    /\ output_channels = "initial"
    /\ command_events = {}

\* --------------------------------------------------- the currency converter
\* concurrent calls of get_conversion_rate followed
MaxCalls == 2

Calls == 1..MaxCalls

\* CurrencyConverter::new: cache: Mutex::new(HashMap::new())
NoConversion ==
    /\ cache = <<>>
    /\ conv_pc = [c \in Calls |-> "none"]
    /\ conv_req = [c \in Calls |-> <<>>]
    /\ conv_result = [c \in Calls |-> "none"]
    /\ fetches = <<>>
    /\ system_time = 0
    /\ nadvances = 0

\* ------------------------------------------------------------ execute_code
NoCode ==
    /\ code_arg = <<>>
    /\ block = <<>>
    /\ code = <<>>

\* ------------------------------------------------------- the chat surface
Local(m) == [id |-> m.id, content |-> m.content, components |-> m.components]

RemoteIndex(id) == CHOOSE k \in DOMAIN remote : remote[k].id = id

\* EditMessage::new(): an edit that changes nothing yet
EditMessage ==
    [set_content |-> FALSE, content |-> <<>>,
     set_components |-> FALSE, components |-> {},
     new_attachments |-> <<>>]

\* the message the surface returns for an edit of message id
Edited(id, edit) ==
    LET m == remote[RemoteIndex(id)] IN
    [m EXCEPT !.content = IF edit.set_content THEN edit.content ELSE @,
              !.components = IF edit.set_components THEN edit.components ELSE @,
              !.attachments = @ \o edit.new_attachments]

RemoteAfterEdit(id, edit) ==
    [k \in DOMAIN remote |-> IF remote[k].id = id THEN Edited(id, edit) ELSE remote[k]]

RemoteAfterDelete(id) == SelectSeq(remote, LAMBDA m : m.id # id)

\* a message created in the channel: no components, no attachments
NewMessage(content, reference) ==
    [id |-> next_id, content |-> content, components |-> {},
     attachments |-> <<>>, reference |-> reference]

\* one transport call of the outputter task; a failed one leaves run() through `?`
Call(ok) ==
    /\ ncalls' = ncalls + 1
    /\ transport_failed' = (transport_failed \/ ~ok)
    /\ task_result' = IF ok THEN task_result ELSE "err"

\* Message::edit on messages[i]: the task's copy becomes the message returned
MsgEdit(ok, i, edit) ==
    /\ Call(ok)
    /\ remote' = IF ok THEN RemoteAfterEdit(messages[i].id, edit) ELSE remote
    /\ messages' = IF ok
                   THEN [messages EXCEPT ![i] = Local(Edited(messages[i].id, edit))]
                   ELSE messages
    /\ UNCHANGED next_id

Min(a, b) == IF a < b THEN a ELSE b

\* ------------------------------------------------------ the outputter task
\* the spawned task builds the Outputter (last_update: Instant::now()) and
\* enters run(): the receiver stream and the interval are created; the first
\* tick of a tokio interval is due at once
RunStart ==
    /\ pc = "spawned"
    /\ pc' = "select"
    /\ last_update' = now
    /\ sync_interval' = now
    /\ UNCHANGED <<ext_vars, messages, chunks, pending_attachments, in_terminal_state,
                   idx, draining, caller, error_message, task_result,
                   chan_vars, surface_vars, hist_vars, now, sup_vars>>

\* no rate gate
GateOpenAlways == TRUE

\* the rate gate of sync_if_pending
GateOpen == now - last_update >= last_update_duration

\* sync_if_pending without its terminal-state check
SkipsSyncNever == FALSE

\* sync_if_pending returns at once in the terminal state
SkipsSync == in_terminal_state

\* sync_if_pending, up to its call of sync_messages_with_chunks
sync_if_pending ==
    IF ~SkipsSync /\ GateOpen
    THEN /\ pc' = "sync_edit"
         /\ idx' = 1
         /\ caller' = "sync_if_pending"
    ELSE /\ pc' = "select"
         /\ UNCHANGED <<idx, caller>>

\* a command taken from the channel while a handler is still awaiting
ReceivesAnytime(type) ==
    /\ pc \notin {"none", "spawned", "exited"}
    /\ tx # <<>>
    /\ Head(tx).type = type
    /\ tx' = Tail(tx)
    /\ handled' = Append(handled, Head(tx))
    /\ UNCHANGED <<tx_open, ncommands, sent_updates, sent_terminal>>

Receives(type) ==
    /\ pc = "select"
    /\ tx # <<>>
    /\ Head(tx).type = type
    /\ tx' = Tail(tx)
    /\ handled' = Append(handled, Head(tx))
    /\ UNCHANGED <<tx_open, ncommands, sent_updates, sent_terminal>>

\* Some(OutputterCommand::Update(message)) => self.update(&message)
RecvUpdate ==
    /\ Receives("Update")
    /\ chunks' = chunk_message(Head(tx).arg, MESSAGE_CHUNK_SIZE)
    /\ sync_if_pending
    /\ pending_since' = IF pc' = "sync_edit" THEN -1
                        ELSE IF pending_since = -1 THEN now ELSE pending_since
    /\ UNCHANGED <<ext_vars, messages, pending_attachments, in_terminal_state, last_update,
                   sync_interval, draining, error_message, task_result,
                   surface_vars, prev_gated_end, finish_syncs, terminals, now,
                   sup_vars>>

\* Some(OutputterCommand::AddAttachment(attachment)) => self.add_attachment(attachment)
RecvAddAttachment ==
    /\ Receives("AddAttachment")
    /\ pending_attachments' = Append(pending_attachments, Head(tx).arg)
    /\ UNCHANGED <<ext_vars, messages, chunks, in_terminal_state, last_update, sync_interval,
                   task_vars, surface_vars, prev_gated_end, pending_since, finish_syncs, terminals, now, sup_vars>>

\* Some(OutputterCommand::Error(err)) => self.on_error(&err)
RecvError ==
    /\ Receives("Error")
    /\ pc' = "error_strike"
    /\ idx' = 1
    /\ error_message' = Head(tx).arg
    /\ UNCHANGED <<ext_vars, outputter_vars, draining, caller, task_result,
                   surface_vars, prev_gated_end, pending_since, finish_syncs, terminals, now, sup_vars>>

\* Some(OutputterCommand::Cancelled) => self.on_error("The generation was cancelled.")
RecvCancelled ==
    /\ Receives("Cancelled")
    /\ pc' = "error_strike"
    /\ idx' = 1
    /\ error_message' = CANCELLED_MESSAGE
    /\ UNCHANGED <<ext_vars, outputter_vars, draining, caller, task_result,
                   surface_vars, prev_gated_end, pending_since, finish_syncs, terminals, now, sup_vars>>

\* Some(OutputterCommand::Finish) => self.finish()
RecvFinish ==
    /\ Receives("Finish")
    /\ pc' = "finish_strip"
    /\ idx' = 1
    /\ UNCHANGED <<ext_vars, outputter_vars, draining, caller, error_message, task_result,
                   surface_vars, prev_gated_end, pending_since, finish_syncs, terminals, now, sup_vars>>

\* None => break: every sender is dropped and the channel is drained
RecvClosed ==
    /\ pc = "select"
    /\ tx = <<>>
    /\ ~tx_open
    /\ pc' = "exited"
    /\ task_result' = "ok"
    /\ UNCHANGED <<ext_vars, outputter_vars, idx, draining, caller, error_message,
                   chan_vars, surface_vars, hist_vars, now, sup_vars>>

\* _ = sync_interval.tick() => self.sync_if_pending(): the select is biased,
\* so a tick is taken only when no command is ready
Tick ==
    /\ pc = "select"
    /\ tx = <<>>
    /\ tx_open
    /\ now >= sync_interval
    /\ sync_interval' = sync_interval + last_update_duration
    /\ sync_if_pending
    /\ pending_since' = IF pc' = "sync_edit" THEN -1 ELSE pending_since
    /\ UNCHANGED <<ext_vars, messages, chunks, pending_attachments, in_terminal_state,
                   last_update, draining, error_message, task_result,
                   chan_vars, surface_vars, prev_gated_end, finish_syncs, handled,
                   terminals, now, sup_vars>>

Last(seq) == seq[Len(seq)]

\* ------------------------------------------- sync_messages_with_chunks
\* a zip that stops after the first pair
OverlapFirst == Min(1, Min(Len(messages), Len(chunks)))

Overlap == Min(Len(messages), Len(chunks))

\* for (msg, chunk) in messages.iter_mut().zip(chunks.iter()): edit the content
SyncEdit ==
    /\ pc = "sync_edit"
    /\ idx <= Overlap
    /\ \E ok \in BOOLEAN :
        /\ MsgEdit(ok, idx, [EditMessage EXCEPT !.set_content = TRUE,
                                                 !.content = chunks[idx]])
        /\ pc' = IF ok THEN "sync_edit" ELSE "exited"
        /\ idx' = IF ok THEN idx + 1 ELSE idx
    /\ UNCHANGED <<ext_vars, chunks, pending_attachments, in_terminal_state, last_update,
                   sync_interval, draining, caller, error_message,
                   chan_vars, hist_vars, now, sup_vars>>

HasExcessMessagesNever == FALSE

HasExcessMessages == Len(chunks) < Len(messages)

\* a sync that never takes the branch that creates messages
HasExcessChunksNever == FALSE

HasExcessChunks == Len(chunks) > Len(messages)

\* the branch after the zip loop; messages.drain(chunks.len()..) takes the
\* surplus out of the vector before the first delete
SyncBranch ==
    /\ pc = "sync_edit"
    /\ idx > Overlap
    /\ IF HasExcessMessages
       THEN /\ pc' = "sync_delete"
            /\ draining' = SubSeq(messages, Len(chunks) + 1, Len(messages))
            /\ messages' = SubSeq(messages, 1, Len(chunks))
            /\ UNCHANGED idx
       ELSE IF HasExcessChunks
       THEN /\ pc' = "sync_strip"
            /\ idx' = 1
            /\ UNCHANGED <<draining, messages>>
       ELSE /\ pc' = "sync_button"
            /\ UNCHANGED <<idx, draining, messages>>
    /\ UNCHANGED <<ext_vars, chunks, pending_attachments, in_terminal_state, last_update,
                   sync_interval, caller, error_message, task_result,
                   chan_vars, surface_vars, hist_vars, now, sup_vars>>

\* msg.delete(&self.http) for each drained message; an error drops the rest
SyncDelete ==
    /\ pc = "sync_delete"
    /\ draining # <<>>
    /\ \E ok \in BOOLEAN :
        /\ Call(ok)
        /\ remote' = IF ok THEN RemoteAfterDelete(Head(draining).id) ELSE remote
        /\ draining' = IF ok THEN Tail(draining) ELSE <<>>
        /\ pc' = IF ~ok THEN "exited"
                 ELSE IF Tail(draining) = <<>> THEN "sync_button" ELSE "sync_delete"
    /\ UNCHANGED <<ext_vars, outputter_vars, idx, caller, error_message, next_id,
                   chan_vars, hist_vars, now, sup_vars>>

\* the strip edit without .components(vec![])
StripEditKeepsComponents == EditMessage

\* EditMessage::new().components(vec![]).allowed_mentions(..)
StripEdit == [EditMessage EXCEPT !.set_components = TRUE, !.components = {}]

\* Remove the cancel button from all existing messages
SyncStrip ==
    /\ pc = "sync_strip"
    /\ idx <= Len(messages)
    /\ \E ok \in BOOLEAN :
        /\ MsgEdit(ok, idx, StripEdit)
        /\ pc' = IF ok THEN "sync_strip" ELSE "exited"
        /\ idx' = IF ok THEN idx + 1 ELSE idx
    /\ UNCHANGED <<ext_vars, chunks, pending_attachments, in_terminal_state, last_update,
                   sync_interval, draining, caller, error_message,
                   chan_vars, hist_vars, now, sup_vars>>

\* the strip loop is over: the create loop runs over chunks[messages.len()..]
SyncStripDone ==
    /\ pc = "sync_strip"
    /\ idx > Len(messages)
    /\ pc' = "sync_create"
    /\ idx' = Len(messages) + 1
    /\ UNCHANGED <<ext_vars, outputter_vars, draining, caller, error_message, task_result,
                   chan_vars, surface_vars, hist_vars, now, sup_vars>>

\* reply_to_message_without_mentions(&self.http, last, chunk), then push
SyncCreate ==
    /\ pc = "sync_create"
    /\ idx <= Len(chunks)
    /\ messages # <<>>
    /\ \E ok \in BOOLEAN :
        LET msg == NewMessage(chunks[idx], Last(messages).id) IN
        /\ Call(ok)
        /\ remote' = IF ok THEN Append(remote, msg) ELSE remote
        /\ next_id' = IF ok THEN next_id + 1 ELSE next_id
        /\ messages' = IF ok THEN Append(messages, Local(msg)) ELSE messages
        /\ pc' = IF ok THEN "sync_create" ELSE "exited"
        /\ idx' = IF ok THEN idx + 1 ELSE idx
    /\ UNCHANGED <<ext_vars, chunks, pending_attachments, in_terminal_state, last_update,
                   sync_interval, draining, caller, error_message,
                   chan_vars, hist_vars, now, sup_vars>>

\* self.messages.last_mut().unwrap() on an empty vector: the task panics
SyncCreatePanic ==
    /\ pc = "sync_create"
    /\ idx <= Len(chunks)
    /\ messages = <<>>
    /\ pc' = "exited"
    /\ task_result' = "panic"
    /\ UNCHANGED <<ext_vars, outputter_vars, idx, draining, caller, error_message,
                   chan_vars, surface_vars, hist_vars, now, sup_vars>>

SyncCreateDone ==
    /\ pc = "sync_create"
    /\ idx > Len(chunks)
    /\ pc' = "sync_button"
    /\ UNCHANGED <<ext_vars, outputter_vars, idx, draining, caller, error_message, task_result,
                   chan_vars, surface_vars, hist_vars, now, sup_vars>>

\* sync_messages_with_chunks returns Ok to its caller: sync_if_pending stamps
\* last_update, finish goes on to the attachments
SyncReturns ==
    IF caller = "sync_if_pending"
    THEN /\ last_update' = now
         /\ prev_gated_end' = now
         /\ pc' = "select"
    ELSE /\ pc' = "finish_attach"
         /\ UNCHANGED <<last_update, prev_gated_end>>

\* the button is wanted: not terminal, and the last message has no component
WantsButton ==
    /\ messages # <<>>
    /\ ~in_terminal_state
    /\ Last(messages).components = {}

\* the component crate::cancel::add_button puts on a message
CancelButton(message_id, user_id) ==
    {[custom_id |-> <<"cancel", message_id, user_id>>]}

OWNER_ID == 7

\* crate::cancel::add_button(&self.http, first_id, last, self.user_id)
add_button(ok, first_id, i, user_id) ==
    MsgEdit(ok, i, [EditMessage EXCEPT !.set_components = TRUE,
                                       !.components = CancelButton(first_id, user_id)])

\* Add the cancel button to the last message
SyncAddButton ==
    /\ pc = "sync_button"
    /\ WantsButton
    /\ \E ok \in BOOLEAN :
        /\ add_button(ok, messages[1].id, Len(messages), OWNER_ID)
        /\ IF ok THEN SyncReturns
           ELSE pc' = "exited" /\ UNCHANGED <<prev_gated_end, last_update>>
    /\ UNCHANGED <<ext_vars, chunks, pending_attachments, in_terminal_state, sync_interval,
                   idx, draining, caller, error_message,
                   chan_vars, pending_since, finish_syncs, handled, terminals, now, sup_vars>>

\* no message at all (return Ok), or no button to add
SyncNoButton ==
    /\ pc = "sync_button"
    /\ ~WantsButton
    /\ SyncReturns
    /\ UNCHANGED <<ext_vars, messages, chunks, pending_attachments, in_terminal_state,
                   sync_interval, idx, draining, caller, error_message, task_result,
                   chan_vars, surface_vars, pending_since, finish_syncs, handled,
                   terminals, now, sup_vars>>

\* ----------------------------------------------------------------- finish
\* a terminal transition has run to its end: what it left on the surface
Completes(rendered) ==
    terminals' = Append(terminals, [cmd |-> Last(handled), seq |-> Len(handled),
                                    rendered |-> rendered])

\* finish's strip edit without .components(vec![])
FinishStripEditKeepsComponents == EditMessage

\* EditMessage::new().components(vec![])
FinishStripEdit == [EditMessage EXCEPT !.set_components = TRUE, !.components = {}]

\* for msg in &mut self.messages: strip the components
FinishStrip ==
    /\ pc = "finish_strip"
    /\ idx <= Len(messages)
    /\ \E ok \in BOOLEAN :
        /\ MsgEdit(ok, idx, FinishStripEdit)
        /\ pc' = IF ok THEN "finish_strip" ELSE "exited"
        /\ idx' = IF ok THEN idx + 1 ELSE idx
    /\ UNCHANGED <<ext_vars, chunks, pending_attachments, in_terminal_state, last_update,
                   sync_interval, draining, caller, error_message,
                   chan_vars, hist_vars, now, sup_vars>>

\* finish with its sync behind the rate gate
FinishSyncGated ==
    /\ pc = "finish_strip"
    /\ idx > Len(messages)
    /\ in_terminal_state' = TRUE
    /\ pc' = IF GateOpen THEN "sync_edit" ELSE "finish_attach"
    /\ idx' = 1
    /\ caller' = "finish"
    /\ pending_since' = -1
    /\ finish_syncs' = IF GateOpen THEN Append(finish_syncs, TRUE) ELSE finish_syncs
    /\ UNCHANGED <<ext_vars, messages, chunks, pending_attachments, last_update, sync_interval,
                   draining, error_message, task_result,
                   chan_vars, surface_vars, prev_gated_end, handled, terminals, now,
                   sup_vars>>

\* self.in_terminal_state = true; self.sync_messages_with_chunks()
FinishSync ==
    /\ pc = "finish_strip"
    /\ idx > Len(messages)
    /\ in_terminal_state' = TRUE
    /\ pc' = "sync_edit"
    /\ idx' = 1
    /\ caller' = "finish"
    /\ pending_since' = -1
    /\ finish_syncs' = Append(finish_syncs, GateOpen)
    /\ UNCHANGED <<ext_vars, messages, chunks, pending_attachments, last_update, sync_interval,
                   draining, error_message, task_result,
                   chan_vars, surface_vars, prev_gated_end, handled, terminals, now,
                   sup_vars>>

HasAttachmentsToFlush == pending_attachments # <<>> /\ messages # <<>>

\* Add any pending attachments to the last message: the buffer is drained
\* into one edit
FinishAttach ==
    /\ pc = "finish_attach"
    /\ HasAttachmentsToFlush
    /\ pending_attachments' = <<>>
    /\ \E ok \in BOOLEAN :
        /\ MsgEdit(ok, Len(messages),
                   [EditMessage EXCEPT !.new_attachments = pending_attachments])
        /\ pc' = IF ok THEN "select" ELSE "exited"
        /\ IF ok THEN Completes(remote') ELSE UNCHANGED terminals
    /\ UNCHANGED <<ext_vars, chunks, in_terminal_state, last_update, sync_interval,
                   idx, draining, caller, error_message,
                   chan_vars, prev_gated_end, pending_since, finish_syncs, handled, now, sup_vars>>

FinishReturn ==
    /\ pc = "finish_attach"
    /\ ~HasAttachmentsToFlush
    /\ pc' = "select"
    /\ Completes(remote)
    /\ UNCHANGED <<ext_vars, outputter_vars, idx, draining, caller, error_message, task_result,
                   chan_vars, surface_vars, prev_gated_end, pending_since, finish_syncs, handled, now, sup_vars>>

\* --------------------------------------------------------------- on_error
\* EditMessage::new().components(vec![]).allowed_mentions(..).content(cut_content)
StrikeEdit(content) ==
    [EditMessage EXCEPT !.set_components = TRUE, !.components = {},
                        !.set_content = TRUE, !.content = cut_content(content)]

\* for msg in &mut self.messages: strike the content through, strip the components
ErrorStrike ==
    /\ pc = "error_strike"
    /\ idx <= Len(messages)
    /\ \E ok \in BOOLEAN :
        /\ MsgEdit(ok, idx, StrikeEdit(messages[idx].content))
        /\ pc' = IF ok THEN "error_strike" ELSE "exited"
        /\ idx' = IF ok THEN idx + 1 ELSE idx
    /\ UNCHANGED <<ext_vars, chunks, pending_attachments, in_terminal_state, last_update,
                   sync_interval, draining, caller, error_message,
                   chan_vars, hist_vars, now, sup_vars>>

\* if let Some(last) = self.messages.last_mut(): is there a message to reply to
HasMessageToReplyTo == messages # <<>>

\* self.in_terminal_state = true, then the reply if there is a last message
ErrorTerminal ==
    /\ pc = "error_strike"
    /\ idx > Len(messages)
    /\ in_terminal_state' = TRUE
    /\ IF HasMessageToReplyTo
       THEN pc' = "error_reply" /\ UNCHANGED terminals
       ELSE pc' = "select" /\ Completes(remote)
    /\ UNCHANGED <<ext_vars, messages, chunks, pending_attachments, last_update, sync_interval,
                   idx, draining, caller, error_message, task_result,
                   chan_vars, surface_vars, prev_gated_end, pending_since, finish_syncs, handled, now, sup_vars>>

\* reply_to_message_without_mentions(&self.http, last, error_message): the
\* reply is not kept in self.messages
ErrorReply ==
    /\ pc = "error_reply"
    /\ \E ok \in BOOLEAN :
        LET msg == NewMessage(error_message, Last(messages).id) IN
        /\ Call(ok)
        /\ remote' = IF ok THEN Append(remote, msg) ELSE remote
        /\ next_id' = IF ok THEN next_id + 1 ELSE next_id
        /\ pc' = IF ok THEN "select" ELSE "exited"
        /\ IF ok THEN Completes(remote') ELSE UNCHANGED terminals
    /\ UNCHANGED <<ext_vars, outputter_vars, idx, draining, caller, error_message,
                   chan_vars, prev_gated_end, pending_since, finish_syncs, handled, now, sup_vars>>

\* ------------------------------------------------------------------ clock
\* only the outputter task reads the clock
Horizon == IF sup_pc \in {"client", "client_join"} THEN MaxTime ELSE MaxRunTime

Advance ==
    /\ task_result = "running"
    /\ now < Horizon
    /\ now' = now + 1
    /\ UNCHANGED <<ext_vars, outputter_vars, task_vars, chan_vars, surface_vars, hist_vars,
                   sup_vars>>

OutputterNext ==
    \/ RunStart \/ RecvUpdate \/ RecvAddAttachment \/ RecvError \/ RecvCancelled
    \/ RecvFinish \/ RecvClosed \/ Tick
    \/ SyncEdit \/ SyncBranch \/ SyncDelete \/ SyncStrip \/ SyncStripDone
    \/ SyncCreate \/ SyncCreatePanic \/ SyncCreateDone \/ SyncAddButton \/ SyncNoButton
    \/ FinishStrip \/ FinishSync \/ FinishAttach \/ FinishReturn
    \/ ErrorStrike \/ ErrorTerminal \/ ErrorReply

\* ------------------------------------------------- the OutputterHandle
\* self.tx.send(..): the result is ignored; a send after the task has ended
\* (the receiver is dropped) queues nothing
SendAll(cmds) ==
    /\ tx' = IF task_result = "running" THEN tx \o cmds ELSE tx
    /\ ncommands' = ncommands + Len(cmds)
    /\ sent_updates' = sent_updates \o
           [k \in DOMAIN SelectSeq(cmds, LAMBDA c : c.type = "Update") |->
               SelectSeq(cmds, LAMBDA c : c.type = "Update")[k].arg]
    /\ sent_terminal' = sent_terminal \o
           [k \in DOMAIN SelectSeq(cmds, LAMBDA c : c.type # "Update" /\ c.type # "AddAttachment") |->
               SelectSeq(cmds, LAMBDA c : c.type # "Update" /\ c.type # "AddAttachment")[k].type]

Send(cmd) == SendAll(<<cmd>>) /\ UNCHANGED tx_open

Command(type, arg) == [type |-> type, arg |-> arg]

\* OutputterHandle::new: post the starting message, spawn the task with it as
\* its only message and wait until the task has built its Outputter
OutputterHandle_new(ok, initial_message) ==
    LET starting_message == [id |-> ANCHOR_ID, content |-> initial_message,
                             components |-> {}, attachments |-> <<>>,
                             reference |-> 0] IN
    /\ transport_failed' = (transport_failed \/ ~ok)
    /\ remote' = IF ok THEN <<starting_message>> ELSE remote
    /\ next_id' = IF ok THEN ANCHOR_ID + 1 ELSE next_id
    /\ messages' = IF ok THEN <<Local(starting_message)>> ELSE messages
    /\ pc' = IF ok THEN "spawned" ELSE pc
    /\ task_result' = IF ok THEN "running" ELSE task_result
    /\ tx_open' = ok
    /\ UNCHANGED <<chunks, pending_attachments, in_terminal_state, sync_interval,
                   last_update,
                   idx, draining, caller, error_message, tx, ncommands,
                   sent_updates, sent_terminal, ncalls, hist_vars, now>>

\* OutputterHandle::join: drop the sender, then await the task
DropSender ==
    /\ tx_open' = FALSE
    /\ UNCHANGED <<tx, ncommands, sent_updates, sent_terminal>>

\* join that drops the task's result
JoinedIgnoresResult == "ok"

\* self.join_handle.await?: Ok only if the task ended with Ok
Joined == IF task_result = "ok" THEN "ok" ELSE "err"

EXECUTING == <<"Executing...">>

\* ----------------------------------------- a client of the OutputterHandle
Texts == { <<"a">>, <<"X", " ", "X", " ", "c">> }
Errors == { <<"e">> }
Attachments == { "f" }

ClientNew ==
    /\ sup_pc = "client_new"
    /\ \E ok \in BOOLEAN :
        /\ OutputterHandle_new(ok, EXECUTING)
        /\ sup_pc' = IF ok THEN "client" ELSE "done"
        /\ result' = IF ok THEN result ELSE "err"
    /\ UNCHANGED <<ext_vars, output, print_log, errored, thread_result, thread, output_rx,
                   print_rx, attachment_rx, bus_vars, outputs_seen, nevents>>

ClientSends(cmd) ==
    /\ sup_pc = "client"
    /\ ncommands < MaxCommands
    /\ Send(cmd)
    /\ UNCHANGED <<ext_vars, outputter_vars, task_vars, surface_vars, hist_vars, now, sup_vars>>

ClientUpdate == \E m \in Texts : ClientSends(Command("Update", m))
ClientAddAttachment == \E a \in Attachments : ClientSends(Command("AddAttachment", a))
ClientError == \E e \in Errors : ClientSends(Command("Error", e))
ClientCancelled == ClientSends(Command("Cancelled", <<>>))
ClientFinish == ClientSends(Command("Finish", <<>>))

ClientJoin ==
    /\ sup_pc = "client"
    /\ DropSender
    /\ sup_pc' = "client_join"
    /\ UNCHANGED <<ext_vars, outputter_vars, task_vars, surface_vars, hist_vars, now,
                   output, print_log, errored, thread_result, thread, output_rx,
                   print_rx, attachment_rx, bus_vars, outputs_seen, nevents, result>>

ClientJoined ==
    /\ sup_pc = "client_join"
    /\ pc = "exited"
    /\ sup_pc' = "done"
    /\ result' = Joined
    /\ UNCHANGED <<ext_vars, outputter_vars, task_vars, chan_vars, surface_vars, hist_vars, now,
                   output, print_log, errored, thread_result, thread, output_rx,
                   print_rx, attachment_rx, bus_vars, outputs_seen, nevents>>

\* before OutputterHandle::new: nothing is posted, no task runs
NoSession ==
    /\ messages = <<>>
    /\ chunks = <<>>
    /\ pending_attachments = <<>>
    /\ in_terminal_state = FALSE
    /\ last_update = 0
    /\ sync_interval = 0
    /\ pc = "none"
    /\ idx = 1
    /\ draining = <<>>
    /\ caller = "none"
    /\ error_message = <<>>
    /\ task_result = "none"
    /\ tx = <<>>
    /\ tx_open = FALSE
    /\ ncommands = 0
    /\ remote = <<>>
    /\ next_id = ANCHOR_ID
    /\ now = 0
    /\ transport_failed = FALSE
    /\ ncalls = 0
    /\ prev_gated_end = -1
    /\ pending_since = -1
    /\ finish_syncs = <<>>
    /\ handled = <<>>
    /\ terminals = <<>>
    /\ sent_updates = <<>>
    /\ sent_terminal = <<>>
    /\ print_log = <<>>
    /\ errored = FALSE
    /\ thread_result = <<>>
    /\ thread = "running"
    /\ output_rx = <<>>
    /\ print_rx = <<>>
    /\ attachment_rx = <<>>
    /\ cancel_bus = <<>>
    /\ nevents = 0
    /\ nclicks = 0
    /\ received = <<>>
    /\ outputs_seen = <<>>
    /\ last_click = <<>>
    /\ result = "none"
    /\ NoInvocation
    /\ NoCommand
    /\ NoConversion
    /\ NoCode

NothingYet ==
    /\ NoSession
    /\ output = <<>>

HandleInit ==
    /\ NothingYet
    /\ sup_pc = "client_new"
    /\ cancel_rx = FALSE

HandleNext ==
    \/ ClientNew \/ ClientUpdate \/ ClientAddAttachment \/ ClientError
    \/ ClientCancelled \/ ClientFinish \/ ClientJoin \/ ClientJoined
    \/ OutputterNext
    \/ Advance

\* the outputter task under any client of its handle
HandleSpec == HandleInit /\ [][HandleNext]_vars

\* ------------------------------------------------------ execute_lua_thread
OTHER_ID == 99
OTHER_USER == 8

\* Output::to_final_output
RECURSIVE print_lines(_)
print_lines(log) ==
    IF log = <<>> THEN <<>> ELSE Head(log) \o <<"\n">> \o print_lines(Tail(log))

\* a render that writes the header even when nothing was printed
to_final_output_with_header(out, log) ==
    out \o <<"\n**Print", " ", "Log**\n">> \o print_lines(log)

to_final_output(out, log) ==
    IF log # <<>>
    THEN out \o <<"\n**Print", " ", "Log**\n">> \o print_lines(log)
    ELSE out

\* what a script passes to output(..) and what it returns: None, Some("") or
\* Some("final")
Outputs == { <<>>, <<"partial">>, <<"X", " ", "X", " ", "c">> }
\* the lines a script prints, in the order it prints them
Prints == << <<"a">>, <<"b">>, <<"c">> >>
Returns == { <<>>, << <<>> >>, << <<"final">> >> }

\* let outputter = OutputterHandle::new(http, cmd, .., "Executing...").await?
New ==
    /\ sup_pc = "new"
    /\ \E ok \in BOOLEAN :
        /\ OutputterHandle_new(ok, EXECUTING)
        /\ sup_pc' = IF ok THEN "loop" ELSE "done"
        /\ result' = IF ok THEN result ELSE "err"
    /\ UNCHANGED <<ext_vars, output, print_log, errored, thread_result, script_vars, bus_vars, outputs_seen>>

\* next_if_some(&mut cancel_rx) is ready
CancelReady == cancel_rx /\ cancel_bus # <<>>

\* a supervisor that takes every cancel event for its own
CancelMatchesAny(cancel_message_id) == TRUE

\* a supervisor that takes no cancel event for its own
CancelMatchesNone(cancel_message_id) == FALSE

\* the cancel event is for this session
CancelMatches(cancel_message_id) == cancel_message_id = ANCHOR_ID

\* Some(cancel_message_id) = next_if_some(&mut cancel_rx): first in the biased select
SupCancel ==
    /\ sup_pc = "loop"
    /\ CancelReady
    /\ cancel_bus' = Tail(cancel_bus)
    /\ received' = Append(received, Head(cancel_bus))
    /\ sup_pc' = "after_loop"
    /\ IF CancelMatches(Head(cancel_bus))
       THEN /\ Send(Command("Cancelled", <<>>))
            /\ errored' = TRUE
       ELSE UNCHANGED <<chan_vars, errored>>
    /\ UNCHANGED <<ext_vars, outputter_vars, task_vars, surface_vars, hist_vars, now,
                   output, print_log, thread_result, script_vars, cancel_rx, nclicks,
                   last_click, outputs_seen, result>>

\* Some(value) = output_stream.next()
SupOutput ==
    /\ sup_pc = "loop"
    /\ ~CancelReady
    /\ output_rx # <<>>
    /\ output' = Head(output_rx)
    /\ output_rx' = Tail(output_rx)
    /\ outputs_seen' = Append(outputs_seen, Head(output_rx))
    /\ Send(Command("Update", to_final_output(output', print_log)))
    /\ UNCHANGED <<ext_vars, outputter_vars, task_vars, surface_vars, hist_vars, now,
                   sup_pc, print_log, errored, thread_result, thread, print_rx,
                   attachment_rx, nevents, bus_vars, result>>

\* Some(value) = print_stream.next()
SupPrint ==
    /\ sup_pc = "loop"
    /\ ~CancelReady
    /\ output_rx = <<>>
    /\ print_rx # <<>>
    /\ print_log' = Append(print_log, Head(print_rx))
    /\ print_rx' = Tail(print_rx)
    /\ Send(Command("Update", to_final_output(output, print_log')))
    /\ UNCHANGED <<ext_vars, outputter_vars, task_vars, surface_vars, hist_vars, now,
                   sup_pc, output, errored, thread_result, thread, output_rx,
                   attachment_rx, nevents, bus_vars, outputs_seen, result>>

\* Some(attachment) = attachment_stream.next()
SupAttachment ==
    /\ sup_pc = "loop"
    /\ ~CancelReady
    /\ output_rx = <<>>
    /\ print_rx = <<>>
    /\ attachment_rx # <<>>
    /\ attachment_rx' = Tail(attachment_rx)
    /\ Send(Command("AddAttachment", Head(attachment_rx)))
    /\ UNCHANGED <<ext_vars, outputter_vars, task_vars, surface_vars, hist_vars, now,
                   sup_pc, output, print_log, errored, thread_result, thread,
                   output_rx, print_rx, nevents, bus_vars, outputs_seen, result>>

\* a select that polls thread.next() whatever else is ready
ThreadIsPolledFirst == sup_pc = "loop"

\* a select that polls thread.next() ahead of the print and attachment streams
ThreadIsPolledBeforePrints ==
    /\ sup_pc = "loop"
    /\ ~CancelReady
    /\ output_rx = <<>>

\* no branch above is ready: the select polls thread.next()
ThreadIsPolled ==
    /\ sup_pc = "loop"
    /\ ~CancelReady
    /\ output_rx = <<>>
    /\ print_rx = <<>>
    /\ attachment_rx = <<>>

\* the script runs inside the poll
ThreadPoll ==
    /\ ThreadIsPolled
    /\ thread = "running"
    /\ sup_pc' = "polling"
    /\ UNCHANGED <<ext_vars, outputter_vars, task_vars, chan_vars, surface_vars, hist_vars, now,
                   output, print_log, errored, thread_result, script_vars, bus_vars, outputs_seen,
                   result>>

\* a run that cannot be cancelled is followed for MaxRenderEvents events
EventBudget == IF cancel_rx THEN MaxEvents ELSE MaxRenderEvents

ScriptEmits ==
    /\ sup_pc = "polling"
    /\ nevents < EventBudget
    /\ nevents' = nevents + 1
    /\ UNCHANGED <<ext_vars, outputter_vars, task_vars, chan_vars, surface_vars, hist_vars, now,
                   sup_pc, output, print_log, errored, thread_result, thread, bus_vars, outputs_seen,
                   result>>

ScriptOutput ==
    /\ ScriptEmits
    /\ \E v \in Outputs : output_rx' = Append(output_rx, v)
    /\ UNCHANGED <<print_rx, attachment_rx>>

ScriptPrint ==
    /\ ScriptEmits
    /\ LET printed == Len(print_log) + Len(print_rx) IN
        print_rx' = Append(print_rx, Prints[(printed % Len(Prints)) + 1])
    /\ UNCHANGED <<output_rx, attachment_rx>>

ScriptAttachment ==
    /\ ScriptEmits
    /\ \E a \in Attachments : attachment_rx' = Append(attachment_rx, a)
    /\ UNCHANGED <<output_rx, print_rx>>

\* the script awaits: the poll returns Pending
ScriptPending ==
    /\ sup_pc = "polling"
    /\ sup_pc' = "loop"
    /\ UNCHANGED <<ext_vars, outputter_vars, task_vars, chan_vars, surface_vars, hist_vars, now,
                   output, print_log, errored, thread_result, script_vars, bus_vars, outputs_seen,
                   result>>

\* Some(Ok(result)): keep the value, send the render again
ScriptReturns ==
    /\ sup_pc = "polling"
    /\ \E value \in Returns :
        thread_result' = IF value # <<>> THEN value ELSE thread_result
    /\ thread' = "returned"
    /\ Send(Command("Update", to_final_output(output, print_log)))
    /\ sup_pc' = "loop"
    /\ UNCHANGED <<ext_vars, outputter_vars, task_vars, surface_vars, hist_vars, now,
                   output, print_log, errored, output_rx, print_rx, attachment_rx,
                   nevents, bus_vars, outputs_seen, result>>

\* Some(Err(err)): outputter.error(&err.to_string()); errored = true; break
ScriptFails ==
    /\ sup_pc = "polling"
    /\ \E e \in Errors : Send(Command("Error", e))
    /\ errored' = TRUE
    /\ thread' = "failed"
    /\ sup_pc' = "after_loop"
    /\ UNCHANGED <<ext_vars, outputter_vars, task_vars, surface_vars, hist_vars, now,
                   output, print_log, thread_result, output_rx, print_rx,
                   attachment_rx, nevents, bus_vars, outputs_seen, result>>

\* None: the thread stream is exhausted; break
ThreadExhausted ==
    /\ ThreadIsPolled
    /\ thread = "returned"
    /\ sup_pc' = "after_loop"
    /\ UNCHANGED <<ext_vars, outputter_vars, task_vars, chan_vars, surface_vars, hist_vars, now,
                   output, print_log, errored, thread_result, script_vars, bus_vars, outputs_seen,
                   result>>

\* adoption that does not look at the output
AdoptsResultAlways == thread_result # <<>>

\* the return value is adopted: no explicit output, and the thread returned one
AdoptsResult == output = <<>> /\ thread_result # <<>>

\* a supervisor that finishes whatever ended its loop
SendsFinishAlways == TRUE

\* if !errored { .. outputter.finish(); }
SendsFinish == ~errored

\* after the loop: adopt the return value, finish, and join (drop the sender)
AfterLoop ==
    /\ sup_pc = "after_loop"
    /\ output' = IF SendsFinish /\ AdoptsResult THEN thread_result[1] ELSE output
    /\ SendAll(IF ~SendsFinish THEN <<>>
               ELSE IF AdoptsResult
               THEN <<Command("Update", to_final_output(output', print_log)),
                      Command("Finish", <<>>)>>
               ELSE <<Command("Finish", <<>>)>>)
    /\ tx_open' = FALSE
    /\ sup_pc' = "join"
    /\ UNCHANGED <<ext_vars, outputter_vars, task_vars, surface_vars, hist_vars, now,
                   print_log, errored, thread_result, script_vars, bus_vars, outputs_seen, result>>

\* outputter.join().await?; Ok(starting_message_id)
Join ==
    /\ sup_pc = "join"
    /\ pc = "exited"
    /\ result' = Joined
    /\ sup_pc' = "done"
    /\ UNCHANGED <<ext_vars, outputter_vars, task_vars, chan_vars, surface_vars, hist_vars, now,
                   output, print_log, errored, thread_result, script_vars, bus_vars, outputs_seen>>

\* ------------------------------------------------------- the cancel bus
\* a message of this session carries the cancel button
ButtonShown == \E k \in DOMAIN remote : remote[k].components # {}

\* crate::cancel::parse_id(&cmp.data.custom_id): the message id and the user
\* id the button names
parse_id(custom_id) == <<custom_id[2], custom_id[3]>>

\* the handler publishes for any user
MayCancelAnyone(user, user_id) == TRUE

\* if cmp.user.id != user_id { return Ok(()); }
MayCancel(user, user_id) == user = user_id

\* what the log keeps of a click
Click(user, id) == <<[user |-> user, message_id |-> id[1], user_id |-> id[2]]>>

\* Interaction::Component: a click on this session's button publishes the
\* message id the button names if the clicking user is the user it names
ClickOwn ==
    /\ ButtonShown
    /\ nclicks < MaxClicks
    /\ \E k \in DOMAIN remote : \E button \in remote[k].components :
       \E user \in {OWNER_ID, OTHER_USER} :
        LET id == parse_id(button.custom_id) IN
        /\ last_click' = Click(user, id)
        /\ cancel_bus' = IF MayCancel(user, id[2]) THEN Append(cancel_bus, id[1])
                         ELSE cancel_bus
    /\ nclicks' = nclicks + 1
    /\ UNCHANGED <<ext_vars, outputter_vars, task_vars, chan_vars, surface_vars, hist_vars, now,
                   sup_pc, output, print_log, errored, thread_result, script_vars,
                   cancel_rx, received, outputs_seen, result>>

\* a click on the button of another session's message, by that session's owner
ClickOther ==
    /\ nclicks < MaxClicks
    /\ nclicks' = nclicks + 1
    /\ last_click' = Click(OTHER_USER, <<OTHER_ID, OTHER_USER>>)
    /\ cancel_bus' = IF MayCancel(OTHER_USER, OTHER_USER) THEN Append(cancel_bus, OTHER_ID)
                     ELSE cancel_bus
    /\ UNCHANGED <<ext_vars, outputter_vars, task_vars, chan_vars, surface_vars, hist_vars, now,
                   sup_pc, output, print_log, errored, thread_result, script_vars,
                   cancel_rx, received, outputs_seen, result>>

Init ==
    /\ NothingYet
    /\ sup_pc = "new"
    /\ cancel_rx = TRUE

SupervisorNext ==
    \/ New \/ SupCancel \/ SupOutput \/ SupPrint \/ SupAttachment
    \/ ThreadPoll \/ ScriptOutput \/ ScriptPrint \/ ScriptAttachment
    \/ ScriptPending \/ ScriptReturns \/ ScriptFails \/ ThreadExhausted
    \/ AfterLoop \/ Join

Next ==
    \/ SupervisorNext
    \/ ClickOwn \/ ClickOther
    \/ OutputterNext
    \/ Advance

\* one run of execute_lua_thread with its outputter task
Spec == Init /\ [][Next]_vars

\* ------------------------------------------------------------ chunk_message
Atoms == {"a", "bb", " ", "X"}

\* the texts of at most MaxLen atoms; adjacent atoms other than " " are one word
ChunkTexts == UNION {[1..n -> Atoms] : n \in 0..MaxLen}

Limits == 0..MaxLimit \cup {MESSAGE_CHUNK_SIZE}

\* any text is the message of an Update
ChunkInit ==
    /\ NoSession
    /\ output \in ChunkTexts
    /\ sup_pc = "chunk"
    /\ cancel_rx = FALSE

\* self.chunks = chunk_message(message, Self::MESSAGE_CHUNK_SIZE)
Chunk ==
    /\ sup_pc = "chunk"
    /\ chunks' = chunk_message(output, MESSAGE_CHUNK_SIZE)
    /\ sup_pc' = "chunked"
    /\ UNCHANGED <<ext_vars, messages, pending_attachments, in_terminal_state, last_update,
                   sync_interval, task_vars, chan_vars, surface_vars, hist_vars, now,
                   output, print_log, errored, thread_result, script_vars, bus_vars,
                   outputs_seen, result>>

ChunkNext == Chunk

ChunkSpec == ChunkInit /\ [][ChunkNext]_vars

\* -------------------------------------------------------------- the render
\* execute_lua_thread called with cancel_rx = None
RenderInit ==
    /\ NothingYet
    /\ sup_pc = "new"
    /\ cancel_rx = FALSE

\* the supervisor's loop and its script, before the outputter task is scheduled
RenderNext ==
    \/ New \/ SupOutput \/ SupPrint
    \/ ThreadPoll \/ ScriptOutput \/ ScriptPrint \/ ScriptPending
    \/ ScriptReturns \/ ThreadExhausted

RenderSpec == RenderInit /\ [][RenderNext]_vars

\* ------------------------------------------------- other sessions on the bus
\* every session is handed a clone of the one flume receiver
\* (Some(self.cancel_rx.clone())), and a flume channel gives each event to one
\* of its receivers: another running session's select takes the event
OtherReceives ==
    /\ cancel_bus # <<>>
    /\ cancel_bus' = Tail(cancel_bus)
    /\ UNCHANGED <<ext_vars, outputter_vars, task_vars, chan_vars, surface_vars, hist_vars, now,
                   sup_pc, output, print_log, errored, thread_result, script_vars,
                   cancel_rx, nclicks, received, last_click, outputs_seen, result>>

BusNext ==
    \/ Next
    \/ OtherReceives

\* one run of execute_lua_thread while other sessions run
BusSpec == Init /\ [][BusNext]_vars

\* ================================================================= claims
Contents(msgs) == [k \in DOMAIN msgs |-> msgs[k].content]

\* the surface's copy of a message the task holds
OnSurface(m) == {r \in {remote[k] : k \in DOMAIN remote} : r.id = m.id}

\* the task's messages are the chunks, one per chunk and in order, and the
\* surface shows each of them with that content
Converged ==
    /\ Len(messages) = Len(chunks)
    /\ \A i \in DOMAIN messages :
        /\ messages[i].content = chunks[i]
        /\ \E r \in OnSurface(messages[i]) : r.content = chunks[i]

\* sync_messages_with_chunks returns Ok in this step
SyncCompletes == pc = "sync_button" /\ pc' \in {"select", "finish_attach"}

\* C1: whenever sync_messages_with_chunks completes without a transport
\* error, there are as many posted messages as chunks and message i holds
\* chunk i.
C1_Convergence == [][SyncCompletes => Converged']_vars

\* a sync has returned that cut the three messages of an earlier sync down to
\* one chunk
C1_Witness ==
    /\ prev_gated_end # -1
    /\ pc = "select"
    /\ next_id = ANCHOR_ID + 3
    /\ Len(messages) = 1
    /\ Len(remote) = 1
    /\ Converged

\* the posted messages that carry the cancel button
WithButton == {k \in DOMAIN remote : remote[k].components # {}}

\* C2: in every state of a session that is not terminal, the states between
\* the calls of one sync included, at most one posted message carries the
\* cancel button, and one that does is the last message of the session.
C2_SingleCancelAffordance ==
    ~in_terminal_state =>
        /\ Cardinality(WithButton) <= 1
        /\ \A k \in WithButton : k = Len(remote)

\* the button has moved to the third message of a session that started with one
C2_Witness ==
    /\ ~in_terminal_state
    /\ Len(remote) = 3
    /\ WithButton = {3}
    /\ prev_gated_end # -1

\* C3: once a terminal transition (finish, error or cancelled) has completed,
\* no posted message carries the cancel button, whatever command or tick
\* comes later.
C3_NoButtonOnceTerminal == terminals # <<>> => WithButton = {}

\* a finish has completed after a sync had put the button on a message, and
\* an Update was received after it
C3_Witness ==
    /\ terminals # <<>>
    /\ terminals[1].cmd.type = "Finish"
    /\ prev_gated_end # -1
    /\ Len(handled) > terminals[1].seq
    /\ handled[Len(handled)].type = "Update"
    /\ Len(remote) = 3

\* sync_if_pending calls sync_messages_with_chunks in this step
GatedSyncStarts == pc = "select" /\ pc' = "sync_edit" /\ caller' = "sync_if_pending"

\* C4: a sync issued through sync_if_pending starts no sooner than the update
\* interval after the previous such sync returned, so the updates of a burst
\* inside one interval cause at most one sync.
C4_RateGate ==
    [][GatedSyncStarts =>
          (prev_gated_end = -1 \/ now - prev_gated_end >= last_update_duration)]_vars

\* a second gated sync runs, and two Updates were received before it
C4_Witness ==
    /\ pc = "sync_edit"
    /\ caller = "sync_if_pending"
    /\ prev_gated_end # -1
    /\ Len(handled) = 3
    /\ \A k \in DOMAIN handled : handled[k].type = "Update"

\* the completed terminal transitions that were a finish
Finished == {k \in DOMAIN terminals : terminals[k].cmd.type = "Finish"}

\* C5: the sync of finish is not behind the rate gate: every finish that
\* completes has called sync_messages_with_chunks, however little time has
\* passed since the previous sync, and the posted messages then hold exactly
\* the chunks of the last Update sent before Finish.
C5_TerminalSyncNotGated ==
    Finished # {} =>
        /\ Len(finish_syncs) = Cardinality(Finished)
        /\ sent_updates # <<>> =>
            /\ Contents(messages) = chunk_message(Last(sent_updates), MESSAGE_CHUNK_SIZE)
            /\ Contents(remote) = Contents(messages)

\* a finish completed whose sync was called with the gate closed, right after
\* a gated sync, and it grew the session to three messages
C5_Witness ==
    /\ Finished # {}
    /\ finish_syncs = <<FALSE>>
    /\ prev_gated_end # -1
    /\ Len(sent_updates) >= 2
    /\ Len(remote) = 3

\* an Update is received, or a tick is taken, in this step
UpdateOrTick ==
    /\ pc = "select"
    /\ \/ sync_interval' # sync_interval
       \/ tx # <<>> /\ Head(tx).type = "Update" /\ Len(handled') > Len(handled)

SyncPcs == {"sync_edit", "sync_delete", "sync_strip", "sync_create", "sync_button"}

\* C6: in_terminal_state never goes back to false; in the terminal state an
\* Update or a tick makes no transport call and starts no sync, and the only
\* sync that runs is the one finish calls.
C6_TerminalAbsorbing ==
    [][/\ in_terminal_state => in_terminal_state'
       /\ (in_terminal_state /\ UpdateOrTick) =>
              (pc' = "select" /\ ncalls' = ncalls /\ remote' = remote)
       /\ (in_terminal_state' /\ pc' \in SyncPcs) => caller' = "finish"]_vars

\* in the terminal state, with the gate open, an Update was received after
\* the transition completed and the task is back at its select
C6_Witness ==
    /\ in_terminal_state
    /\ terminals # <<>>
    /\ pc = "select"
    /\ Len(handled) > terminals[1].seq
    /\ handled[Len(handled)].type = "Update"
    /\ GateOpen
    /\ sync_interval > now

\* C7: a terminal transition applied twice in a row leaves the surface as the
\* first application left it: no second notice, no content changed again.
C7_TerminalIdempotence ==
    \A k \in DOMAIN terminals :
        (/\ k > 1
         /\ terminals[k].seq = terminals[k - 1].seq + 1
         /\ terminals[k].cmd = terminals[k - 1].cmd)
        => terminals[k].rendered = terminals[k - 1].rendered

\* C8: execute_lua_thread returns Err only if a chat-transport call failed,
\* and Ok on every outcome without one.
C8_ErrOnlyOnTransportFailure ==
    sup_pc = "done" => (result = "err" <=> transport_failed)

\* C9: after a transport call of the outputter has failed the task makes no
\* further transport call and the surface no longer changes, and
\* execute_lua_thread returns the error.
C9_TransportFailureFatal ==
    [][/\ transport_failed => (ncalls' = ncalls /\ remote' = remote)
       /\ (transport_failed' /\ sup_pc' = "done") => result' = "err"]_vars

\* a call failed after others had succeeded, commands were still sent after
\* it, and execute_lua_thread has returned
C9_Witness ==
    /\ transport_failed
    /\ ncalls >= 3
    /\ sup_pc = "done"
    /\ ncommands > Len(handled) + Len(tx)
    /\ Len(remote) >= 2

\* the posted messages that carry an error or cancellation notice
Notices ==
    {k \in DOMAIN remote : remote[k].content \in Errors \cup {CANCELLED_MESSAGE}}

\* C10: a run that ends Errored or Cancelled without a transport failure has
\* posted exactly one reply carrying the notice, whatever happened before.
C10_NoticeAlwaysPosted ==
    (/\ sup_pc = "done"
     /\ ~transport_failed
     /\ sent_terminal \in {<<"Error">>, <<"Cancelled">>})
    => Cardinality(Notices) = 1

\* the supervisor has received a cancel event for its own anchor
ReceivedOwn == \E k \in DOMAIN received : received[k] = ANCHOR_ID

\* a content between strike-through marks
Struck(content) ==
    /\ Len(content) >= 2
    /\ Head(content) = "~~"
    /\ content[Len(content)] = "~~"

\* every message of the session is struck through and has no button, and the
\* notice is posted after them as a reply to the last of them
StruckWithNotice(notice) ==
    /\ messages # <<>>
    /\ Len(remote) = Len(messages) + 1
    /\ \A k \in DOMAIN messages :
        /\ remote[k].id = messages[k].id
        /\ Struck(remote[k].content)
        /\ remote[k].components = {}
    /\ Last(remote).content = notice
    /\ Last(remote).reference = Last(messages).id
    /\ Last(remote).components = {}

\* C11: once the supervisor has received a cancel event for its own anchor it
\* has sent Cancelled and no other terminal command (never Finish), it has
\* left its loop, from then on it consumes no source and sends no command,
\* and when the run ends without a transport failure it returns Ok and the
\* surface shows the session's messages struck through, followed by the
\* fixed cancellation notice.
C11_CancelPath ==
    [][ReceivedOwn' =>
        /\ errored'
        /\ sent_terminal' = <<"Cancelled">>
        /\ sup_pc' \in {"after_loop", "join", "done"}
        /\ (ReceivedOwn =>
              /\ UNCHANGED <<output, print_log, thread_result, output_rx, print_rx,
                             attachment_rx, sent_updates, sent_terminal>>
              /\ ncommands' = ncommands)
        /\ (sup_pc' = "done" /\ ~transport_failed' =>
              /\ result' = "ok"
              /\ StruckWithNotice(CANCELLED_MESSAGE)')]_vars

\* a cancelled run has ended: output the script had emitted is still unread
C11_Witness ==
    /\ ReceivedOwn
    /\ sup_pc = "done"
    /\ result = "ok"
    /\ StruckWithNotice(CANCELLED_MESSAGE)
    /\ Len(messages) = 3
    /\ output_rx # <<>>

\* the supervisor receives a cancel event in this step
ReceivesCancel == Len(received') > Len(received)

\* C12: a cancel event addressed to another anchor is discarded: the step
\* that receives it leaves the supervisor in its loop, still Running, with no
\* command sent, so that it goes on consuming its sources.
C12_OtherAnchorDiscarded ==
    [][ReceivesCancel /\ Last(received') # ANCHOR_ID =>
        /\ sup_pc' = "loop"
        /\ UNCHANGED <<errored, sent_updates, sent_terminal, ncommands>>]_vars

\* the supervisor has received a cancel event, and none for its own anchor
ReceivedOther ==
    /\ received # <<>>
    /\ \A k \in DOMAIN received : received[k] # ANCHOR_ID

\* C13: once the supervisor has received a cancel event for another anchor
\* it has left its loop without the cancelled path: it is not errored, it
\* reads no source any more, it has not sent Cancelled, what it sends is
\* Finish, no message is struck through and no notice is posted; the run
\* ends through finish, which leaves the chunks of the last Update.
C13_SecondaryBranch ==
    [][ReceivedOther' =>
        /\ ~errored'
        /\ sup_pc' \in {"after_loop", "join", "done"}
        /\ (sup_pc' = "after_loop" => sent_terminal' = <<>>)
        /\ (sup_pc' # "after_loop" => sent_terminal' = <<"Finish">>)
        /\ (ReceivedOther =>
              UNCHANGED <<print_log, thread_result, output_rx, print_rx, attachment_rx>>)
        /\ Notices' = {}
        /\ \A k \in DOMAIN remote' : ~Struck(remote'[k].content)
        /\ (sup_pc' = "done" /\ result' = "ok" =>
              /\ Len(terminals') = 1
              /\ Finished' = {1}
              /\ sent_updates' # <<>> =>
                   Contents(remote') =
                       chunk_message(Last(sent_updates'), MESSAGE_CHUNK_SIZE))]_vars

\* a run ended through finish after a cancel event for another anchor, with
\* output of the script left unread
C13_Witness ==
    /\ ReceivedOther
    /\ sup_pc = "done"
    /\ result = "ok"
    /\ Finished = {1}
    /\ thread = "running"
    /\ output_rx # <<>>
    /\ Len(remote) = 3

\* C14: the bus is a broadcast: a cancel event published for this session's
\* anchor is observed by this session, whatever other sessions are subscribed;
\* the event leaves the bus only as this session's supervisor receives it and
\* sends Cancelled.
C14_Broadcast ==
    [][(/\ cancel_bus # <<>>
        /\ Head(cancel_bus) = ANCHOR_ID
        /\ cancel_bus' = Tail(cancel_bus))
       => /\ received' = Append(received, ANCHOR_ID)
          /\ sent_terminal' = Append(sent_terminal, "Cancelled")]_vars

\* a button is clicked in this step
Clicked == nclicks' = nclicks + 1

\* C15: only the user a button names may cancel with it: an event is put on
\* the bus only by a click whose user is the owner the button encodes, and
\* it is the message id the button encodes; a click by any other user
\* publishes nothing and changes nothing of the session.
C15_OnlyOwnerCancels ==
    [][/\ Len(cancel_bus') > Len(cancel_bus) =>
            /\ Clicked
            /\ last_click'[1].user = last_click'[1].user_id
            /\ cancel_bus' = Append(cancel_bus, last_click'[1].message_id)
       /\ (Clicked /\ last_click'[1].user # last_click'[1].user_id) =>
            UNCHANGED <<outputter_vars, task_vars, chan_vars, surface_vars, now,
                        sup_pc, output, print_log, errored, thread_result,
                        script_vars, cancel_rx, cancel_bus, received, result>>]_vars

\* another user has clicked this session's button: the run went on and ended
\* through finish
C15_Witness ==
    /\ last_click # <<>>
    /\ last_click[1].user = OTHER_USER
    /\ last_click[1].user_id = OWNER_ID
    /\ last_click[1].message_id = ANCHOR_ID
    /\ received = <<>>
    /\ sup_pc = "done"
    /\ result = "ok"
    /\ Finished = {1}

\* the script has set its output to "partial", nothing else, and has then
\* returned "final"; the run has ended with Ok
ScenarioA ==
    /\ outputs_seen = << <<"partial">> >>
    /\ print_log = <<>>
    /\ thread_result = << <<"final">> >>
    /\ thread = "returned"
    /\ received = <<>>
    /\ sup_pc = "done"
    /\ result = "ok"

\* C16: Scenario A: after Output("partial") and a successful return of
\* "final", with no output call after the return, the session's final
\* content is "final".
C16_ScenarioA ==
    ScenarioA => Contents(remote) = << <<"final">> >>

\* the supervisor leaves its loop's aftermath in this step, not errored
Completing == sup_pc = "after_loop" /\ sup_pc' = "join" /\ ~errored

\* the return value becomes the primary output in this step and is rendered
Adopted ==
    /\ thread_result # <<>>
    /\ output' = thread_result[1]
    /\ output' # output
    /\ sent_updates' = Append(sent_updates, to_final_output(output', print_log))

\* the script returned a value that is not the empty string
ReturnedValue == thread_result # <<>> /\ thread_result[1] # <<>>

RECURSIVE SumLen(_, _)
SumLen(lines, n) == IF n = 0 THEN 0 ELSE Len(lines[n]) + 1 + SumLen(lines, n - 1)

PRINT_LOG_HEADER == <<"\n**Print", " ", "Log**\n">>

\* r is the render of a primary output and a print log: the output first;
\* nothing more if nothing was printed; otherwise the header, then line k of
\* the log followed by a newline, for k = 1, 2, .. in that order, and no more
IsRender(r, out, lines) ==
    /\ Len(r) >= Len(out)
    /\ SubSeq(r, 1, Len(out)) = out
    /\ lines = <<>> => r = out
    /\ lines # <<>> =>
        LET at == Len(out) + Len(PRINT_LOG_HEADER) IN
        /\ Len(r) = at + SumLen(lines, Len(lines))
        /\ SubSeq(r, Len(out) + 1, at) = PRINT_LOG_HEADER
        /\ \A k \in DOMAIN lines :
            /\ SubSeq(r, at + SumLen(lines, k - 1) + 1,
                         at + SumLen(lines, k) - 1) = lines[k]
            /\ r[at + SumLen(lines, k)] = "\n"

\* a render is sent in this step
Renders == Len(sent_updates') = Len(sent_updates) + 1

\* C18: every render the supervisor sends is the most recently received
\* primary output (a new value replaces the old one) followed, only if a
\* print was received, by the Print Log header and every print line in
\* arrival order, one per line; after prints a, b, c and no output the render
\* is the empty primary section followed by the log of a, b, c.
C18_Render ==
    [][/\ (output_rx # <<>> /\ output_rx' = Tail(output_rx)) =>
            /\ Renders
            /\ IsRender(Last(sent_updates'), Head(output_rx), print_log)
            /\ output' = Head(output_rx)
            /\ print_log' = print_log
       /\ (print_rx # <<>> /\ print_rx' = Tail(print_rx)) =>
            /\ Renders
            /\ IsRender(Last(sent_updates'), output, Append(print_log, Head(print_rx)))
            /\ output' = output
            /\ print_log' = Append(print_log, Head(print_rx))
       /\ (Renders /\ thread' = "returned" /\ thread = "running") =>
            /\ IsRender(Last(sent_updates'), output, print_log)
            /\ UNCHANGED <<output, print_log>>
       /\ (Renders /\ outputs_seen' = <<>> /\ print_log' = << <<"a">>, <<"b">>, <<"c">> >>) =>
            Last(sent_updates') =
                <<"\n**Print", " ", "Log**\n", "a", "\n", "b", "\n", "c", "\n">>]_vars

\* Scenario B has happened: a, b and c were printed, no output was set
C18_Witness ==
    /\ outputs_seen = <<>>
    /\ print_log = << <<"a">>, <<"b">>, <<"c">> >>
    /\ Len(sent_updates) = 3
    /\ Last(sent_updates) = <<"\n**Print", " ", "Log**\n", "a", "\n", "b", "\n", "c", "\n">>

\* the words of a text, whitespace normalized: what stands between spaces,
\* runs of spaces counting as one
Words(s) == SelectSeq(split(s), LAMBDA w : w # <<>>)

\* the chunks joined with single spaces
RECURSIVE JoinChunks(_)
JoinChunks(chs) ==
    IF chs = <<>> THEN <<>>
    ELSE IF Len(chs) = 1 THEN chs[1]
    ELSE chs[1] \o <<" ">> \o JoinChunks(Tail(chs))

\* the words of each chunk, chunk after chunk
RECURSIVE WordsOf(_)
WordsOf(chs) == IF chs = <<>> THEN <<>> ELSE Words(Head(chs)) \o WordsOf(Tail(chs))

\* no word lies across two chunks, and the chunks joined are the text
ChunkInvariant(text, chs) ==
    /\ WordsOf(chs) = Words(text)
    /\ Words(JoinChunks(chs)) = Words(text)

\* C19: for every text and limit, chunk_message puts each word whole into
\* one chunk, and the chunks joined with single spaces are the text with its
\* whitespace normalized: the same words in the same order.
C19_ChunkInvariant ==
    /\ \A limit \in Limits : ChunkInvariant(output, chunk_message(output, limit))
    /\ sup_pc = "chunked" => ChunkInvariant(output, chunks)

\* a text with a run of two spaces right at a rollover
C19_Witness ==
    /\ sup_pc = "chunked"
    /\ output = <<"X", " ", " ", "a">>
    /\ chunks = << <<"X">>, <<"a">> >>

\* C20 as stated: every chunk produced for a render is at most
\* MESSAGE_CHUNK_SIZE (1500) long, whatever the text.
C20_ChunkWithinBudget ==
    sup_pc = "chunked" =>
        \A k \in DOMAIN chunks : ByteLen(chunks[k]) <= MESSAGE_CHUNK_SIZE

\* where the last space of a chunk is; 0 if it has none
RECURSIVE LastSpace(_, _)
LastSpace(chunk, i) ==
    IF i = 0 THEN 0
    ELSE IF chunk[i] = " " THEN i
    ELSE LastSpace(chunk, i - 1)

\* a chunk without its last word and the space before that word
WithoutLastWord(chunk) ==
    LET at == LastSpace(chunk, Len(chunk)) IN
    IF at = 0 THEN <<>> ELSE SubSeq(chunk, 1, at - 1)

\* every chunk is within the limit before its last word is appended
WithinBudgetBeforeLastWord(chs, limit) ==
    \A k \in DOMAIN chs : ByteLen(WithoutLastWord(chs[k])) <= limit

\* C20, amended: every chunk produced for a render exceeds the budget by no
\* more than its last word: without its last word and the space before it,
\* the chunk is at most MESSAGE_CHUNK_SIZE (1500) long; so for every limit.
C20_ChunkBudget ==
    /\ \A limit \in Limits :
          WithinBudgetBeforeLastWord(chunk_message(output, limit), limit)
    /\ sup_pc = "chunked" => WithinBudgetBeforeLastWord(chunks, MESSAGE_CHUNK_SIZE)

\* a chunk over the budget: a word carried it past 1500 and the next word
\* opened a new chunk
C20_Witness ==
    /\ sup_pc = "chunked"
    /\ output = <<"a", " ", "X", " ", "bb">>
    /\ chunks = << <<"a", " ", "X">>, <<"bb">> >>
    /\ ByteLen(chunks[1]) = MESSAGE_CHUNK_SIZE + 3

\* the words a text can be continued with
NextWords == {<< a >> : a \in Atoms \ {" "}}

\* appending one more word to the text: a new chunk holding the word opens
\* exactly when the last chunk is already longer than the limit, otherwise
\* the word goes to the end of the last chunk
RollsOverExactly(text, limit) ==
    \A word \in NextWords :
        LET chs == chunk_message(text, limit)
            more == chunk_message(text \o <<" ">> \o word, limit)
        IN  IF ByteLen(Last(chs)) > limit
            THEN more = Append(chs, word)
            ELSE /\ Len(more) = Len(chs)
                 /\ SubSeq(more, 1, Len(chs) - 1) = SubSeq(chs, 1, Len(chs) - 1)
                 /\ Last(more) = (IF Last(chs) = <<>> THEN word
                                  ELSE Last(chs) \o <<" ">> \o word)

\* the shape of what chunk_message returns
RolloverRule(text, chs, limit) ==
    /\ Len(chs) >= 1
    /\ \A k \in 1..(Len(chs) - 1) : ByteLen(chs[k]) > limit
    /\ \A k \in 1..(Len(chs) - 1) : ByteLen(WithoutLastWord(chs[k])) <= limit
    /\ text = <<>> => chs = << <<>> >>

\* C21: chunk_message opens a new chunk with the next word exactly when the
\* current chunk is already longer than the limit: every chunk but the last
\* is longer than the limit and within it without its last word; there is
\* always at least one chunk, and for the empty text exactly one, empty.
C21_RolloverRule ==
    /\ \A limit \in Limits :
        /\ RolloverRule(output, chunk_message(output, limit), limit)
        /\ RollsOverExactly(output, limit)
    /\ sup_pc = "chunked" => RolloverRule(output, chunks, MESSAGE_CHUNK_SIZE)

\* two rollovers at 1500: each oversized word closes its chunk
C21_Witness ==
    /\ sup_pc = "chunked"
    /\ output = <<"X", " ", "X", " ", "bb">>
    /\ chunks = << <<"X">>, <<"X">>, <<"bb">> >>

\* a non-terminal sync of three chunks whose session holds the starting
\* message and nothing that an earlier sync created
ScenarioC ==
    /\ pc \in SyncPcs
    /\ ~in_terminal_state
    /\ Len(chunks) = 3
    /\ messages # <<>>
    /\ messages[1].id = ANCHOR_ID
    /\ next_id = ANCHOR_ID + Len(messages)
    /\ pc \in {"sync_edit", "sync_strip"} => Len(messages) = 1
    /\ ~transport_failed'

\* the transport call of this step, if any, and where the sync goes next
ScenarioCStep ==
    /\ pc = "sync_edit" /\ idx = 1 =>
        /\ ncalls' = ncalls + 1
        /\ Contents(remote') = <<chunks[1]>>
        /\ remote'[1].components = remote[1].components
        /\ pc' = "sync_edit" /\ idx' = 2
    /\ pc = "sync_edit" /\ idx = 2 =>
        /\ UNCHANGED <<ncalls, remote>>
        /\ pc' = "sync_strip" /\ idx' = 1
    /\ pc = "sync_strip" /\ idx = 1 =>
        /\ ncalls' = ncalls + 1
        /\ Contents(remote') = Contents(remote)
        /\ remote'[1].components = {}
        /\ pc' = "sync_strip" /\ idx' = 2
    /\ pc = "sync_strip" /\ idx = 2 =>
        /\ UNCHANGED <<ncalls, remote>>
        /\ pc' = "sync_create" /\ idx' = 2
    /\ pc = "sync_create" /\ idx <= 3 =>
        /\ WithButton = {}
        /\ Len(remote) = idx - 1
        /\ ncalls' = ncalls + 1
        /\ Contents(remote') = SubSeq(chunks, 1, idx)
        /\ WithButton' = {}
        /\ pc' = "sync_create" /\ idx' = idx + 1
    /\ pc = "sync_create" /\ idx = 4 =>
        /\ UNCHANGED <<ncalls, remote>>
        /\ pc' = "sync_button"
    /\ pc = "sync_button" =>
        /\ ncalls' = ncalls + (IF Last(remote).components = {} THEN 1 ELSE 0)
        /\ Contents(remote') = chunks
        /\ WithButton' = {3}
        /\ pc' = "select"
    /\ pc # "sync_delete"

\* C22: a sync of a session with one posted message against three chunks
\* makes one content edit on message 1, takes the button off message 1, then
\* creates messages 2 and 3, and ends with the button on message 3 only.
\* Only the steps of the outputter task count: the client may send further
\* commands meanwhile, which touch neither the task nor the surface.
C22_ScenarioC == [][ScenarioC => ScenarioCStep]_<<pc, idx, ncalls, remote>>

\* the second sync of a session is over: the first put "a" and the button on
\* the starting message (2 calls), this one made the 5 calls of the scenario
C22_Witness ==
    /\ pc = "select"
    /\ ~in_terminal_state
    /\ Len(handled) = 2
    /\ ncalls = 7
    /\ Len(remote) = 3
    /\ Contents(remote) = chunks
    /\ WithButton = {3}

\* the attachments the outputter has received, in arrival order
ReceivedAttachments ==
    LET adds == SelectSeq(handled, LAMBDA c : c.type = "AddAttachment")
    IN  [k \in DOMAIN adds |-> adds[k].arg]

\* this step handles an AddAttachment command
HandlesAttachment ==
    /\ Len(handled') > Len(handled)
    /\ Last(handled').type = "AddAttachment"

\* finish returns in this step
FinishCompletes ==
    /\ Len(terminals') > Len(terminals)
    /\ Last(terminals').cmd.type = "Finish"

\* C23: handling an attachment makes no transport call; when finish runs, the
\* attachments received so far go on the last message in one edit after the
\* final sync, in arrival order, and the buffer is empty afterwards.
C23_AttachmentsFlushed ==
    [][/\ HandlesAttachment => UNCHANGED <<remote, ncalls>>
       /\ pc = "finish_attach" /\ pc' # pc /\ ReceivedAttachments # <<>> =>
            ncalls' = ncalls + 1
       /\ FinishCompletes =>
            /\ pending_attachments' = <<>>
            /\ ReceivedAttachments # <<>> =>
                /\ remote' # <<>>
                /\ Last(remote').attachments = ReceivedAttachments]_vars

\* the positions of the task inside a handler, between two awaits
HandlerPcs == SyncPcs \cup {"finish_strip", "finish_attach", "error_strike", "error_reply"}

\* a call on the chat surface is made in this step
TransportCall == ncalls' # ncalls \/ remote' # remote

\* the select of run() takes a command or a tick in this step
SelectTakes ==
    \/ Len(handled') > Len(handled)
    \/ pc # "spawned" /\ sync_interval' # sync_interval

\* C24: the calls of a session on the chat surface are strictly sequential.
\* Every call is one step of one owner: OutputterHandle::new before the task
\* exists, afterwards the outputter task at its position inside a handler,
\* which is at the next position only when the call has returned; and the
\* task takes the next command or tick only when no handler is running,
\* whatever is queued, due or clicked meanwhile.
C24_SequentialCalls ==
    [][/\ TransportCall =>
            \/ pc = "none" /\ ncalls' = ncalls
            \/ /\ pc \in HandlerPcs
               /\ ncalls' = ncalls + 1
               /\ <<pc, idx, draining>>' # <<pc, idx, draining>>
               /\ ~SelectTakes
               /\ UNCHANGED <<tx, sup_pc>>
       /\ SelectTakes => pc = "select"]_vars

\* a handler is between two calls while a command is queued, a tick is due
\* and a cancel event is on the bus
C24_Witness ==
    /\ pc = "sync_create"
    /\ idx = 3
    /\ ncalls >= 3
    /\ tx # <<>>
    /\ now >= sync_interval
    /\ cancel_bus # <<>>

\* ------------------------------------------------- the lag of an update
\* The clock of a promptly scheduled task: time passes while a handler awaits
\* the chat surface, or while run() waits in its select with no command queued
\* and no tick due. A command or a due tick is taken before time passes, and
\* the task starts as soon as it is spawned.
LagAdvance ==
    /\ task_result = "running"
    /\ now < MaxLagTime
    /\ \/ pc \in HandlerPcs
       \/ pc = "select" /\ tx = <<>> /\ tx_open /\ now < sync_interval
    /\ now' = now + 1
    /\ UNCHANGED <<ext_vars, outputter_vars, task_vars, chan_vars, surface_vars, hist_vars,
                   sup_vars>>

LagNext ==
    \/ ClientNew \/ ClientUpdate \/ ClientAddAttachment \/ ClientError
    \/ ClientCancelled \/ ClientFinish \/ ClientJoin \/ ClientJoined
    \/ OutputterNext
    \/ LagAdvance

\* the outputter task, promptly scheduled, under any client of its handle
LagSpec == HandleInit /\ [][LagNext]_vars

\* no terminal command was handled and no transport call failed
NonTerminalSession ==
    /\ task_result = "running"
    /\ ~transport_failed
    /\ ~in_terminal_state
    /\ \A k \in DOMAIN handled : handled[k].type \in {"Update", "AddAttachment"}

\* C25: in a non-terminal session without transport failures, an Update that
\* the outputter has handled is followed within one rate-limit interval by a
\* sync that carries its content or a later one's.
C25_BoundedLag ==
    NonTerminalSession /\ pending_since # -1 =>
        now - pending_since <= last_update_duration

\* the source the biased select has to serve: the first one that is ready
HighestReady ==
    IF CancelReady THEN "cancel"
    ELSE IF output_rx # <<>> THEN "output"
    ELSE IF print_rx # <<>> THEN "print"
    ELSE IF attachment_rx # <<>> THEN "attachment"
    ELSE "thread"

\* the source this step of the supervisor loop serves
Served ==
    IF ReceivesCancel THEN "cancel"
    ELSE IF Len(output_rx') < Len(output_rx) THEN "output"
    ELSE IF Len(print_rx') < Len(print_rx) THEN "print"
    ELSE IF Len(attachment_rx') < Len(attachment_rx) THEN "attachment"
    ELSE "thread"

\* an iteration of the supervisor loop selects its branch in this step
Selects ==
    /\ sup_pc = "loop"
    /\ \/ sup_pc' # sup_pc
       \/ <<received, output_rx, print_rx, attachment_rx>>'
            # <<received, output_rx, print_rx, attachment_rx>>

\* the value the script completes with is handled in this step
HandlesCompletion == thread = "running" /\ thread' = "returned"

\* nothing is pending from the output, print and attachment sources
NothingPending == output_rx = <<>> /\ print_rx = <<>> /\ attachment_rx = <<>>

SyncWithoutMessages ==
    /\ pc \in SyncPcs
    /\ messages = <<>>
    /\ draining = <<>>

\* C27: a sync of a session with zero posted messages is a no-op whatever
\* the number of chunks: no transport call, no failure or abort of the
\* outputter task, and the posted messages stay as they are.
C27_MalformedNoOp ==
    [][SyncWithoutMessages =>
          /\ task_result' = task_result
          /\ pc' # "exited"
          /\ UNCHANGED <<remote, ncalls, next_id, messages, chunks>>]_vars

\* a successful transport call made inside sync_messages_with_chunks
SyncCall == pc \in SyncPcs /\ ncalls' # ncalls /\ ~transport_failed'

\* the position on the surface of the posted message with this id
Position(id) == CHOOSE k \in DOMAIN remote : remote[k].id = id

\* the content edit of the overlapping pair idx
ContentEdit ==
    /\ pc = "sync_edit"
    /\ idx <= Len(messages) /\ idx <= Len(chunks)
    /\ remote' = [remote EXCEPT ![Position(messages[idx].id)].content = chunks[idx]]
    /\ idx' = idx + 1

\* the delete of a surplus trailing message
SurplusDelete ==
    /\ pc = "sync_delete"
    /\ Len(messages) = Len(chunks)
    /\ Position(Head(draining).id) > Len(chunks)
    /\ remote' = RemoteAfterDelete(Head(draining).id)

\* an edit that only takes the components off an existing message
ComponentStrip ==
    /\ pc = "sync_strip"
    /\ Len(chunks) > Len(messages)
    /\ remote' = [remote EXCEPT ![Position(messages[idx].id)].components = {}]

\* the create for the first chunk that has no message yet
ChunkCreate ==
    /\ pc = "sync_create"
    /\ idx = Len(messages) + 1
    /\ idx <= Len(chunks)
    /\ Len(remote') = Len(remote) + 1
    /\ SubSeq(remote', 1, Len(remote)) = remote
    /\ Last(remote').content = chunks[idx]
    /\ Last(remote').reference = Last(messages).id

\* the edit that puts the button on the last message
ButtonEdit ==
    /\ pc = "sync_button"
    /\ ~in_terminal_state
    /\ Contents(remote') = Contents(remote)
    /\ WithButton' = WithButton \cup {Position(Last(messages).id)}

\* sync_messages_with_chunks returns in this step
SyncReturnsNow == pc = "sync_button" /\ pc' \in {"select", "finish_attach"}

TerminalOwed ==
    IF ReceivedOwn THEN "Cancelled"
    ELSE IF thread = "failed" THEN "Error"
    ELSE "Finish"

\* execute_lua_thread has left its loop and sent what it sends before joining
BeforeJoin == sup_pc \in {"join", "done"} /\ task_result # "none"

\* C29: every run of execute_lua_thread that has a session sends exactly one
\* terminal command before it joins the outputter: Cancelled on a matching
\* cancel, Error on a script failure, Finish otherwise (also when the thread
\* stream is exhausted or another session's cancel ended the loop).
C29_OneTerminalCommand ==
    /\ BeforeJoin => sent_terminal = <<TerminalOwed>>
    /\ ~BeforeJoin => Len(sent_terminal) <= 1

\* the run has sent Cancelled, and no Finish after it, and joined
C29_Witness ==
    /\ sup_pc = "done"
    /\ ReceivedOwn
    /\ sent_terminal = <<"Cancelled">>
    /\ sent_updates # <<>>

\* the starting message is on the surface
AnchorPosted == \E k \in DOMAIN remote : remote[k].id = ANCHOR_ID

\* C30: the anchor is never deleted: in every state of a session, whatever
\* the order of Updates, ticks and terminal commands, the posted-message list
\* is not empty, its first element is the starting message, and the starting
\* message is still on the surface.
C30_AnchorNeverDeleted ==
    pc # "none" =>
        /\ messages # <<>>
        /\ messages[1].id = ANCHOR_ID
        /\ AnchorPosted

\* the select of run() takes a tick in this step
TakesTick == pc = "select" /\ sync_interval' # sync_interval

\* C31: a tick syncs only pending updates: when no Update was received since
\* the last sync, the tick makes no transport call and leaves the posted
\* messages as they are. (sync_messages_with_chunks makes no call only when
\* it is not called, or has neither a message nor a chunk to work on.)
C31_TickOnlyPending ==
    [][TakesTick /\ pending_since = -1 =>
          /\ pc' = "select" \/ (messages = <<>> /\ chunks = <<>>)
          /\ UNCHANGED <<messages, remote, ncalls>>]_vars

\* the arguments of the Update commands in a sequence of commands
UpdatesOf(cmds) ==
    LET ups == SelectSeq(cmds, LAMBDA c : c.type = "Update")
    IN  [k \in DOMAIN ups |-> ups[k].arg]

\* the terminal commands in a sequence of commands
TerminalsOf(cmds) ==
    LET ts == SelectSeq(cmds, LAMBDA c : c.type \notin {"Update", "AddAttachment"})
    IN  [k \in DOMAIN ts |-> ts[k].type]

\* C32: no command is lost at shutdown: when the outputter task has exited
\* and no transport call failed, every command sent through the handle was
\* handled, in send order, and a Finish that was sent has run to its end.
C32_NoCommandLost ==
    pc = "exited" /\ ~transport_failed =>
        /\ tx = <<>>
        /\ Len(handled) = ncommands
        /\ UpdatesOf(handled) = sent_updates
        /\ TerminalsOf(handled) = sent_terminal
        /\ Finished # {} \/ \A k \in DOMAIN sent_terminal : sent_terminal[k] # "Finish"

\* the script completed, the loop ended on the exhausted thread stream (no
\* cancel event was taken), and the code after the loop has sent Finish
FinishedAfterCompletion ==
    /\ sup_pc \in {"join", "done"}
    /\ thread = "returned"
    /\ received = <<>>
    /\ sent_terminal = <<"Finish">>

\* the primary output of the final render: the last output the script set,
\* or the adopted return value when that is empty
FinalOutput ==
    IF outputs_seen # <<>> /\ Last(outputs_seen) # <<>> THEN Last(outputs_seen)
    ELSE IF thread_result # <<>> THEN thread_result[1]
    ELSE <<>>

STALE_ID == 98

\* a click on the button of a session that is past its loop, made before this
\* session starts: the handler publishes the id, and no receiver is waiting
ClickStale ==
    /\ sup_pc = "new"
    /\ nclicks < MaxClicks
    /\ nclicks' = nclicks + 1
    /\ last_click' = Click(OTHER_USER, <<STALE_ID, OTHER_USER>>)
    /\ cancel_bus' = IF MayCancel(OTHER_USER, OTHER_USER) THEN Append(cancel_bus, STALE_ID)
                     ELSE cancel_bus
    /\ UNCHANGED <<ext_vars, outputter_vars, task_vars, chan_vars, surface_vars, hist_vars, now,
                   sup_pc, output, print_log, errored, thread_result, script_vars,
                   cancel_rx, received, outputs_seen, result>>

StaleNext ==
    \/ Next
    \/ ClickStale

\* one run of execute_lua_thread that starts after another session has ended
StaleSpec == Init /\ [][StaleNext]_vars

\* C34: a cancel event published for a session that has already ended has no
\* effect on a session started later: the later session never receives it,
\* and so is never stopped by it.
C34_StaleCancelIgnored ==
    \A k \in DOMAIN received : received[k] # STALE_ID

\* ============================================== the output channels map
\* lua/extensions/globals.rs, used by handle_reply (main.rs) for each reply
EventKinds == {"output", "print", "attachment"}

\* OutputChannelsMap::get_for_thread: the thread's entry, else the default one
get_for_thread(map, key) ==
    IF key \in DOMAIN map THEN map[key] ELSE map[DEFAULT_CHANNELS_KEY]

\* the channels handle_reply creates for one invocation
ChannelsOf(i) == <<"invocation", i>>

\* OutputChannelsMap::insert
map_insert(map, key, channels) ==
    [k \in DOMAIN map \cup {key} |-> IF k = key THEN channels ELSE map[k]]

\* OutputChannelsMap::remove
map_remove(map, key) == [k \in DOMAIN map \ {key} |-> map[k]]

\* the threads some invocation still holds
HeldAddresses == {thread_key[i] : i \in {j \in Invocations : inv_pc[j] \in {"created", "running"}}}

\* let thread = lua.create_thread(handler)?: the allocator picks a free address
create_thread(i) ==
    /\ sup_pc = "route"
    /\ inv_pc[i] = "none"
    /\ \E a \in Addresses \ heap :
        /\ thread_key' = [thread_key EXCEPT ![i] = a]
        /\ heap' = heap \cup {a}
    /\ inv_pc' = [inv_pc EXCEPT ![i] = "created"]
    /\ UNCHANGED <<core_vars, channels_map, delivered, nemitted, command_vars,
                   currency_vars, block_vars>>

\* TemporaryChannelUpdate::new: the invocation's channels go in under its
\* thread's pointer; the thread then runs inside execute_lua_reply_thread
TemporaryChannelUpdate_new(i) ==
    /\ sup_pc = "route"
    /\ inv_pc[i] = "created"
    /\ channels_map' = map_insert(channels_map, thread_key[i], ChannelsOf(i))
    /\ inv_pc' = [inv_pc EXCEPT ![i] = "running"]
    /\ UNCHANGED <<core_vars, thread_key, heap, delivered, nemitted, command_vars,
                   currency_vars, block_vars>>

\* output(..), print(..) or attach(..) called by the invocation's thread:
\* with_current_channels looks the current thread's pointer up
with_current_channels(i) ==
    /\ sup_pc = "route"
    /\ inv_pc[i] = "running"
    /\ nemitted < MaxEmits
    /\ nemitted' = nemitted + 1
    /\ \E kind \in EventKinds :
        delivered' = delivered \cup
            {[from |-> i, kind |-> kind,
              to |-> get_for_thread(channels_map, thread_key[i])]}
    /\ UNCHANGED <<core_vars, channels_map, inv_pc, thread_key, heap, command_vars,
                   currency_vars, block_vars>>

\* execute_lua_reply_thread returns: the AsyncThread it was given is dropped,
\* the guard _temporary_channel_update is still alive in handle_reply
ThreadDropped(i) ==
    /\ sup_pc = "route"
    /\ inv_pc[i] = "running"
    /\ inv_pc' = [inv_pc EXCEPT ![i] = "returned"]
    /\ UNCHANGED <<core_vars, channels_map, thread_key, heap, delivered, nemitted,
                   command_vars, currency_vars, block_vars>>

\* the runtime's collector frees a thread nobody holds
Collect ==
    /\ sup_pc = "route"
    /\ \E a \in heap \ HeldAddresses : heap' = heap \ {a}
    /\ UNCHANGED <<core_vars, channels_map, inv_pc, thread_key, delivered, nemitted,
                   command_vars, currency_vars, block_vars>>

\* impl Drop for TemporaryChannelUpdate: channels_map.remove(self.thread_key)
TemporaryChannelUpdate_drop(i) ==
    /\ sup_pc = "route"
    /\ inv_pc[i] = "returned"
    /\ channels_map' = map_remove(channels_map, thread_key[i])
    /\ inv_pc' = [inv_pc EXCEPT ![i] = "dropped"]
    /\ UNCHANGED <<core_vars, thread_key, heap, delivered, nemitted, command_vars,
                   currency_vars, block_vars>>

RouteInit ==
    /\ NothingYet
    /\ sup_pc = "route"
    /\ cancel_rx = FALSE

RouteNext ==
    \/ \E i \in Invocations : create_thread(i)
    \/ \E i \in Invocations : TemporaryChannelUpdate_new(i)
    \/ \E i \in Invocations : with_current_channels(i)
    \/ \E i \in Invocations : ThreadDropped(i)
    \/ Collect
    \/ \E i \in Invocations : TemporaryChannelUpdate_drop(i)

\* reply invocations sharing the global Lua runtime
RouteSpec == RouteInit /\ [][RouteNext]_vars

\* C35: every event an invocation's thread emits while its
\* TemporaryChannelUpdate is alive reaches that invocation's own channels
C35_PerInvocationRouting == \A d \in delivered : d.to = ChannelsOf(d.from)

\* C35, its last part: the drop removes the invocation's entry and leaves the
\* default entry
C35_DropRemovesEntry ==
    [][\A i \in Invocations :
          inv_pc[i] = "returned" /\ inv_pc'[i] = "dropped" =>
              /\ thread_key[i] \notin DOMAIN channels_map'
              /\ DEFAULT_CHANNELS_KEY \in DOMAIN channels_map'
              /\ channels_map'[DEFAULT_CHANNELS_KEY] = <<"default">>]_vars

\* ============================================ registered Lua commands
\* commands/lua_command.rs: every run of Handler::run works on the one global
\* Lua state behind a tokio Mutex
\* a lock that is granted whoever holds it
LockIsFreeAlways == TRUE

\* self.global_lua.lock().await completes only when no guard is alive
LockIsFree == global_lua = 0

\* Outputter::new(..).await?, the channels of this execution are created
RunNew(r) ==
    /\ sup_pc = "commands"
    /\ run_pc[r] = "none"
    /\ \E ok \in BOOLEAN :
        run_pc' = [run_pc EXCEPT ![r] = IF ok THEN "lock" ELSE "done"]
    /\ UNCHANGED <<core_vars, global_lua, output_channels, command_events,
                   route_vars, currency_vars, block_vars>>

\* let lua = self.global_lua.lock().await
RunLocks(r) ==
    /\ sup_pc = "commands"
    /\ run_pc[r] = "lock"
    /\ LockIsFree
    /\ global_lua' = r
    /\ run_pc' = [run_pc EXCEPT ![r] = "locked"]
    /\ UNCHANGED <<core_vars, output_channels, command_events,
                   route_vars, currency_vars, block_vars>>

\* update_channels: OutputChannels::update puts this execution's senders in
\* the userdata; the handler is then wrapped in a thread and polled
update_channels(r) ==
    /\ sup_pc = "commands"
    /\ run_pc[r] = "locked"
    /\ output_channels' = r
    /\ run_pc' = [run_pc EXCEPT ![r] = "running"]
    /\ UNCHANGED <<core_vars, global_lua, command_events,
                   route_vars, currency_vars, block_vars>>

\* the script calls output(..) or print(..): send_output and send_print use
\* the senders the userdata holds at that moment
CommandEmits(r) ==
    /\ sup_pc = "commands"
    /\ run_pc[r] = "running"
    /\ command_events' = command_events \cup {[from |-> r, to |-> output_channels]}
    /\ UNCHANGED <<core_vars, global_lua, run_pc, output_channels,
                   route_vars, currency_vars, block_vars>>

\* run returns, by its last line or by a `?`: the thread and the guard are dropped
RunReturns(r) ==
    /\ sup_pc = "commands"
    /\ run_pc[r] \in {"locked", "running"}
    /\ global_lua' = IF global_lua = r THEN 0 ELSE global_lua
    /\ run_pc' = [run_pc EXCEPT ![r] = "done"]
    /\ UNCHANGED <<core_vars, output_channels, command_events,
                   route_vars, currency_vars, block_vars>>

CommandInit ==
    /\ NothingYet
    /\ sup_pc = "commands"
    /\ cancel_rx = FALSE

CommandNext ==
    \/ \E r \in Runs : RunNew(r)
    \/ \E r \in Runs : RunLocks(r)
    \/ \E r \in Runs : update_channels(r)
    \/ \E r \in Runs : CommandEmits(r)
    \/ \E r \in Runs : RunReturns(r)

\* registered Lua commands invoked concurrently
CommandSpec == CommandInit /\ [][CommandNext]_vars

ScriptsRunning == {r \in Runs : run_pc[r] = "running"}

\* C36: at most one registered command's script runs at any time, and while it
\* runs the installed output channels are its own: every event it emits goes
\* to its own channels
C36_CommandsSerialized ==
    /\ Cardinality(ScriptsRunning) <= 1
    /\ \A r \in ScriptsRunning : output_channels = r /\ global_lua = r
    /\ \A e \in command_events : e.to = e.from

\* a second command has run after the first, a third waits for the lock while
\* the second's script runs
C36_Witness ==
    \E r, s, t \in Runs :
        /\ run_pc[r] = "done" /\ run_pc[s] = "running" /\ run_pc[t] = "lock"
        /\ [from |-> r, to |-> r] \in command_events
        /\ [from |-> s, to |-> s] \in command_events

\* ============================================== the currency converter
\* commands/execute/extensions/currency.rs; times are in seconds
CACHE_DURATION == 86400
MIN_REQUEST_INTERVAL == 3600

\* fetches followed before no further request is made
MaxFetches == 2
\* steps of the clock
MaxAdvances == 2

\* ZZZ is a code the backend has no rate for
Currencies == {"USD", "EUR", "ZZZ"}
BackendRates == {"USD", "EUR"}
TimeSteps == {MIN_REQUEST_INTERVAL \div 2, MIN_REQUEST_INTERVAL, CACHE_DURATION}

\* check_cache: the entry of `from` is younger than CACHE_DURATION and has `to`
check_cache(c, from, to, t) ==
    /\ from \in DOMAIN c
    /\ t - c[from].timestamp < CACHE_DURATION
    /\ to \in c[from].rates

\* should_fetch_from_api
should_fetch_from_api(c, from, t) ==
    IF from \in DOMAIN c
    THEN t - c[from].last_request >= MIN_REQUEST_INTERVAL
    ELSE TRUE

\* calculate_through_intermediates: from -> intermediate -> to, or a base
\* that has both
calculate_through_intermediates(c, from, to, t) ==
    \/ /\ from \in DOMAIN c
       /\ t - c[from].timestamp < CACHE_DURATION
       /\ \E intermediate \in c[from].rates : check_cache(c, intermediate, to, t)
    \/ \E base \in DOMAIN c :
        /\ t - c[base].timestamp < CACHE_DURATION
        /\ from \in c[base].rates
        /\ to \in c[base].rates

\* a fetch_and_cache_rates that notes the request before it knows the answer
cache_after_fetch_noted(c, ok, base, t) ==
    [b \in DOMAIN c \cup {base} |->
        IF b = base
        THEN [rates |-> IF ok THEN BackendRates ELSE {}, timestamp |-> t,
              last_request |-> t]
        ELSE c[b]]

\* fetch_and_cache_rates: `?` leaves before the insert when the backend fails
cache_after_fetch(c, ok, base, t) ==
    IF ok
    THEN [b \in DOMAIN c \cup {base} |->
             IF b = base
             THEN [rates |-> BackendRates, timestamp |-> t, last_request |-> t]
             ELSE c[b]]
    ELSE c

\* does get_conversion_rate answer without the backend
AnswersFromCache(from, to) ==
    \/ check_cache(cache, from, to, system_time)
    \/ check_cache(cache, to, from, system_time)
    \/ /\ ~should_fetch_from_api(cache, from, system_time)
       /\ calculate_through_intermediates(cache, from, to, system_time)

\* convert / rate with from # to: get_conversion_rate up to its return from
\* the cache or its call of backend.fetch_rates (in either branch)
get_conversion_rate(call) ==
    /\ sup_pc = "currency"
    /\ conv_pc[call] \in {"none", "done"}
    /\ Len(fetches) < MaxFetches
    /\ \E from \in Currencies : \E to \in Currencies \ {from} :
        /\ conv_req' = [conv_req EXCEPT ![call] =
               [from |-> from, to |-> to, now |-> system_time]]
        /\ IF AnswersFromCache(from, to)
           THEN /\ conv_pc' = [conv_pc EXCEPT ![call] = "done"]
                /\ conv_result' = [conv_result EXCEPT ![call] = "ok"]
                /\ UNCHANGED fetches
           ELSE /\ conv_pc' = [conv_pc EXCEPT ![call] = "fetching"]
                /\ conv_result' = [conv_result EXCEPT ![call] = "none"]
                /\ fetches' = Append(fetches, [base |-> from, time |-> system_time,
                                               call |-> call, answer |-> "pending"])
    /\ UNCHANGED <<core_vars, cache, system_time, nadvances, route_vars,
                   command_vars, block_vars>>

\* backend.fetch_rates returns: Err leaves through `?`, Ok is cached under
\* the time taken before the request and the rate is looked up again
fetch_and_cache_rates(call) ==
    /\ sup_pc = "currency"
    /\ conv_pc[call] = "fetching"
    /\ \E ok \in BOOLEAN :
        /\ cache' = cache_after_fetch(cache, ok, conv_req[call].from, conv_req[call].now)
        /\ conv_result' = [conv_result EXCEPT ![call] =
               IF ~ok THEN "backend_err"
               ELSE IF check_cache(cache', conv_req[call].from, conv_req[call].to,
                                   system_time)
               THEN "ok" ELSE "not_found"]
        /\ fetches' = [k \in DOMAIN fetches |->
               IF fetches[k].call = call /\ fetches[k].answer = "pending"
               THEN [fetches[k] EXCEPT !.answer = IF ok THEN "ok" ELSE "err"]
               ELSE fetches[k]]
    /\ conv_pc' = [conv_pc EXCEPT ![call] = "done"]
    /\ UNCHANGED <<core_vars, conv_req, system_time, nadvances, route_vars,
                   command_vars, block_vars>>

CurrencyAdvance ==
    /\ sup_pc = "currency"
    /\ nadvances < MaxAdvances
    /\ nadvances' = nadvances + 1
    /\ \E d \in TimeSteps : system_time' = system_time + d
    /\ UNCHANGED <<core_vars, cache, conv_pc, conv_req, conv_result, fetches,
                   route_vars, command_vars, block_vars>>

CurrencyInit ==
    /\ NothingYet
    /\ sup_pc = "currency"
    /\ cancel_rx = FALSE

CurrencyNext ==
    \/ \E call \in Calls : get_conversion_rate(call)
    \/ \E call \in Calls : fetch_and_cache_rates(call)
    \/ CurrencyAdvance

\* conversions asked of one CurrencyConverter
CurrencySpec == CurrencyInit /\ [][CurrencyNext]_vars

\* C37: two backend fetches for the same base currency are at least
\* MIN_REQUEST_INTERVAL apart
C37_RefetchRateLimited ==
    \A k, l \in DOMAIN fetches :
        k < l /\ fetches[k].base = fetches[l].base =>
            fetches[l].time - fetches[k].time >= MIN_REQUEST_INTERVAL

\* C37 for one call at a time and a backend that never fails
C37_LimitedAfterCachedFetch ==
    \A k, l \in DOMAIN fetches :
        /\ k < l /\ fetches[k].base = fetches[l].base
        /\ \A n \in 1..l : fetches[n].answer = "ok" \/ n = l
        /\ \A n \in 1..l : fetches[n].call = fetches[l].call
        => fetches[l].time - fetches[k].time >= MIN_REQUEST_INTERVAL

\* the backend's answer to the call's fetch is an error
FetchFails(call) ==
    \E k \in DOMAIN fetches :
        /\ fetches[k].call = call
        /\ fetches[k].answer = "pending"
        /\ fetches'[k].answer = "err"

\* C38: when the backend fetch fails the call ends with the backend's error
\* and the cache is as it was; a call changes the cache only when its fetch
\* has succeeded
C38_FailedFetchLeavesCache ==
    [][/\ \A call \in Calls :
              FetchFails(call) =>
                  /\ conv_pc'[call] = "done"
                  /\ conv_result'[call] = "backend_err"
                  /\ cache' = cache
       /\ cache' # cache =>
              \E k \in DOMAIN fetches :
                  fetches[k].answer = "pending" /\ fetches'[k].answer = "ok"]_vars

\* a fetch has failed and the cache holds what an earlier call put there
C38_Witness ==
    \E call \in Calls :
        /\ conv_result[call] = "backend_err"
        /\ conv_pc[call] = "done"
        /\ cache # <<>>
        /\ conv_req[call].from \notin DOMAIN cache

\* ======================================================== execute_code
\* commands/execute.rs; here a string is the sequence of its characters,
\* "tick" being the backtick and "nl" the line feed
\* pieces a code argument is put together from
MaxBlockAtoms == 7

\* the markers parse_markdown_lua_block looks for
OPENING == <<"tick", "tick", "tick", "l", "u", "a", "nl">>
CLOSING == <<"nl", "tick", "tick", "tick">>

\* a fence, the language tag, a line feed, any other text
BlockAtoms == {<<"tick", "tick", "tick">>, <<"l", "u", "a">>, <<"nl">>, <<"x">>}

RECURSIVE Flatten(_)
Flatten(pieces) == IF pieces = <<>> THEN <<>> ELSE Head(pieces) \o Flatten(Tail(pieces))

\* the code arguments: at most MaxBlockAtoms pieces in any order
BlockTexts == {Flatten(p) : p \in UNION {[1..n -> BlockAtoms] : n \in 0..MaxBlockAtoms}}

\* str::find: the byte offset of the first match, -1 for None
RECURSIVE find_from(_, _, _)
find_from(s, pat, i) ==
    IF i + Len(pat) > Len(s) THEN -1
    ELSE IF SubSeq(s, i + 1, i + Len(pat)) = pat THEN i
    ELSE find_from(s, pat, i + 1)

find(s, pat) == find_from(s, pat, 0)

\* a search for the end that begins on the line feed of the opening marker
block_end_overlapping(s, start) ==
    LET at == find(SubSeq(s, start, Len(s)), CLOSING) IN
    IF at = -1 THEN -1 ELSE at - 1

\* code[start..].find(CLOSING)
block_end(s, start) == find(SubSeq(s, start + 1, Len(s)), CLOSING)

\* parse_markdown_lua_block: <<>> is None, <<s>> is Some(s)
parse_markdown_lua_block(s) ==
    LET opening == find(s, OPENING) IN
    IF opening = -1 THEN <<>>
    ELSE LET start == opening + 7
             end == block_end(s, start) IN
         IF end = -1 THEN <<>>
         ELSE <<SubSeq(s, start + 1, start + end)>>

\* let code = parse_markdown_lua_block(code).unwrap_or(code)
execute_code ==
    /\ sup_pc = "execute_code"
    /\ \E arg \in BlockTexts :
        /\ code_arg' = arg
        /\ block' = parse_markdown_lua_block(arg)
        /\ code' = IF parse_markdown_lua_block(arg) = <<>>
                   THEN arg
                   ELSE parse_markdown_lua_block(arg)[1]
    /\ sup_pc' = "load"
    /\ UNCHANGED <<outputter_vars, task_vars, chan_vars, surface_vars, hist_vars, now,
                   output, print_log, errored, thread_result, script_vars, bus_vars,
                   outputs_seen, result, route_vars, command_vars, currency_vars>>

BlockInit ==
    /\ NothingYet
    /\ sup_pc = "execute_code"
    /\ cancel_rx = FALSE

\* execute_code on any code argument, up to the code it goes on with
BlockSpec == BlockInit /\ [][execute_code]_vars

MatchesAt(s, pat, i) ==
    i + Len(pat) <= Len(s) /\ SubSeq(s, i + 1, i + Len(pat)) = pat

\* where the opening marker starts, and where a closing marker starts at or
\* after the end of the opening marker
Openings(s) == {i \in 0..Len(s) : MatchesAt(s, OPENING, i)}
FirstOf(S) == CHOOSE i \in S : \A j \in S : i <= j
ClosingsAfter(s, i) ==
    {j \in 0..Len(s) : j >= i + Len(OPENING) /\ MatchesAt(s, CLOSING, j)}

\* C39: the block is the text strictly between the first opening marker and
\* the first closing marker after it; None without an opening marker or
\* without such a closing marker, and then the input is executed unchanged
C39_MarkdownBlock ==
    sup_pc = "load" =>
        IF Openings(code_arg) = {} \/ ClosingsAfter(code_arg, FirstOf(Openings(code_arg))) = {}
        THEN block = <<>> /\ code = code_arg
        ELSE LET i == FirstOf(Openings(code_arg))
                 j == FirstOf(ClosingsAfter(code_arg, i)) IN
             /\ block = <<SubSeq(code_arg, i + Len(OPENING) + 1, j)>>
             /\ code = block[1]

\* text before the block, and a body between the markers
C39_Witness ==
    /\ sup_pc = "load"
    /\ code_arg = <<"x">> \o OPENING \o <<"x">> \o CLOSING
    /\ block = <<<<"x">>>>
    /\ code = <<"x">>

\* an opening marker with nothing but the fence after it: no block
C39_WitnessNone ==
    /\ sup_pc = "load"
    /\ code_arg = OPENING \o <<"tick", "tick", "tick">>
    /\ block = <<>>
    /\ code = code_arg

====
